---- MODULE Spec2Model ----
(***************************************************************************)
(* State-machine model of the ro-agent core loop:                          *)
(*   Agent.run_turn / is_cancelled / request_cancel (core/agent.py),       *)
(*   Session (core/session.py) and ToolRegistry (tools/registry.py).       *)
(*                                                                         *)
(* run_turn is an async generator.  Each action below runs the coroutine   *)
(* from one suspension point (an await that is pending) to the next one,   *)
(* so the yields that lie in between are folded into the action that       *)
(* reaches them; pc names the await the coroutine is parked at.            *)
(***************************************************************************)
EXTENDS Integers, Sequences, FiniteSets, TLC

\* ------------------------------------------------------------------ bounds
MaxTurns == 2        \* run_turn invocations explored on one Agent
MaxToolCalls == 2    \* tool calls the model returns over the Agent's life
MaxLen == 4          \* longest string handed to truncate_output
MaxLimit == 3        \* largest max_chars handed to truncate_output
MaxHistory == 5      \* longest history of a Session handed to compact()
MaxCompacts == 2     \* compact() calls explored on one Session
MaxManualCompacts == 1  \* compact() calls between the turns of one Agent
MaxTokens == 2       \* cap of Session.total_input_tokens
MaxDispatches == 2   \* ToolRegistry.dispatch calls explored on one registry
MaxChunks == 4       \* chunks the provider sends in one stream
MaxPieces == 3       \* pieces of the longest command handed to the bash handler
MaxSqlPieces == 4    \* pieces of the longest statement handed to a query
MaxContent == 4      \* characters of the longest file handed to the edit tool
MaxOld == 2          \* characters of the longest old_string
MaxStream == 3       \* events of the longest iterator handed to wrap_turn
MaxEvalTurns == 5    \* largest EvalConfig.max_turns
MaxTasks == 3        \* tasks of the data file
MaxSessions == 2     \* invocations of the dbbench command on one run directory
MaxParallel == 3     \* mutation tasks run_dbbench_tasks runs at a time
MaxCancels == 2      \* calls of SignalManager.cancel
MaxSaves == 5        \* saves into the conversations directory

\* --------------------------------------------------------------- constants
None == "None"
REJECTED == "Command rejected by user. Awaiting new instructions."
SKIPPED == "Command skipped - user rejected previous command."

\* ToolRegistry._handlers: name -> handler.requires_approval
Handlers == [read |-> FALSE, bash |-> TRUE]

\* DEFAULT_DANGEROUS_PATTERNS, the profile's dangerous_patterns
DEFAULT_DANGEROUS_PATTERNS == {"rm -rf", "DROP TABLE"}

\* MAX_TOOL_OUTPUT_CHARS, scaled down from 20000: still longer than every
\* message run_turn and the registry write themselves
MAX_TOOL_OUTPUT_CHARS == 60

\* Agent(context_limit = ...), scaled down from DEFAULT_CONTEXT_LIMIT so that
\* the history of one turn with a tool call crosses the threshold
context_limit == 25

\* Session.system_prompt
system_prompt == ""

\* Tool calls the model may return: (id, name, arguments).  "object" is a
\* JSON object none of whose values holds a dangerous pattern, "rm -rf" a
\* JSON object with a value that holds that pattern, "array" any parsed JSON
\* value that is not an object.  The same call may be returned twice in a
\* round (equal id, name, arguments).
ToolCalls ==
  { [id |-> "c1", name |-> "read", arguments |-> "object"],
    [id |-> "c2", name |-> "bash", arguments |-> "object"],
    [id |-> "c3", name |-> "nope", arguments |-> "object"],
    [id |-> "c4", name |-> "read", arguments |-> "array"] }

\* ... and the calls of the runs that tell apart what arguments and outputs
\* hold
PayloadCalls ==
  { [id |-> "c5", name |-> "read", arguments |-> "rm -rf"],
    [id |-> "c3", name |-> "nope", arguments |-> "object"],
    [id |-> "c4", name |-> "read", arguments |-> "array"] }

\* ... and the calls of the runs with compaction
CompactCalls ==
  { [id |-> "c1", name |-> "read", arguments |-> "object"],
    [id |-> "c3", name |-> "nope", arguments |-> "object"] }

\* str repeated n times
RECURSIVE Repeat(_, _)
Repeat(str, n) == IF n = 0 THEN "" ELSE str \o Repeat(str, n - 1)

\* what a handler may return: a short output; or also one longer than
\* MAX_TOOL_OUTPUT_CHARS
ShortOutputs == {"output"}

PayloadOutputs == {"output", Repeat("o", MAX_TOOL_OUTPUT_CHARS + 1)}

\* usage reports of the provider: (input_tokens, output_tokens).  A provider
\* that reports none leaves the totals as one that reports zeros.
NoUsage == { [input_tokens |-> 0, output_tokens |-> 0] }

Usages == NoUsage \cup { [input_tokens |-> 2, output_tokens |-> 1] }

VARIABLES
  history,           \* Session.history
  cancel_requested,  \* Agent._cancel_requested
  hasCallback,       \* Agent._approval_callback is not None
  modelCalls,        \* the tool calls the model client may return
  handlerOutputs,    \* the contents the handlers may return
  auto_compact,      \* Agent._auto_compact
  usages,            \* the usage reports the provider may send
  extAnswers,        \* what the cancel_check predicate may answer
  total_input_tokens,   \* Session.total_input_tokens
  total_output_tokens,  \* Session.total_output_tokens
  compacts,          \* compact() calls made from outside run_turn
  tokensAtStart,     \* history: estimate_tokens() when the current run_turn began
  pc,                \* where run_turn is parked
  events,            \* AgentEvents yielded by the current run_turn
  text_content,      \* run_turn local
  pending,           \* run_turn local pending_tool_calls (= tool_calls)
  tool_results,      \* run_turn local
  cur,               \* index of the tool call the for loop is at
  streamDone,        \* the model stream has delivered its done event
  round,             \* model rounds started in the current turn
  toolCalls,         \* tool calls the model has returned since construction
  turns,             \* run_turn invocations since construction
  rejectedAt,        \* history: index of the call the callback rejected (0: none)
  dispatchLog,       \* history: Registry.dispatch calls of the current turn
  lateModelCall,     \* history: a model call started with cancellation requested
  cancelSeen,        \* history: is_cancelled() returned true since the last reset
  lastRet,           \* history: what the latest is_cancelled() returned
  held               \* history: after that, a call returned true although the
                     \*          external predicate no longer answered true

\* state of the components that are exercised on their own
VARIABLES
  tr_content,         \* truncate_output: the argument content
  tr_max_chars,       \* truncate_output: the argument max_chars
  truncated,         \* truncate_output: results of applying it, then again
  sessionHistory,    \* compact(): Session.history of an Agent between turns
  compactLog,        \* compact(): history before, summary and history after
                     \*            each call so far
  invocation,        \* dispatch: the ToolInvocation whose handler is running,
                     \*           as a sequence of at most one
  dispatched,        \* dispatch: the calls so far, what the handler did and
                     \*           what dispatch returned or raised
  use_nonstreaming_tools,  \* ModelClient.stream: prompt.tools and
                     \*   self._use_nonstreaming_tools
  streamPc,          \* ModelClient.stream: "running" (awaiting the provider)
                     \*   or "ended"
  streamEvents,      \* ModelClient.stream: the StreamEvents yielded so far
  tool_calls_in_progress,  \* ModelClient.stream local: the indices, in
                     \*   insertion order
  chunks,            \* ModelClient.stream: chunks received from the provider
  finishSeen,        \* ModelClient.stream: a chunk carried finish_reason
  restricted,        \* BashHandler._restricted
  bash_command,      \* BashHandler.handle: invocation.arguments.get("command", "")
  bashPc,            \* BashHandler.handle: "called", "communicating" (the
                     \*   subprocess runs) or "returned"
  subprocess_started,  \* BashHandler.handle: create_subprocess_shell was awaited
  bashOutput,        \* BashHandler.handle: what it returned or raised, as a
                     \*   sequence of at most one
  database,          \* CapabilityProfile.database of the profile the factory
                     \*   was given
  fromFactory,       \* the database handler is built by ToolFactory, not by a
                     \*   direct constructor call
  sql,               \* DatabaseHandler._handle_query: arguments.get("sql", "")
  dbPc,              \* "build", "called" or "returned"
  executed,          \* the statements handed to _execute_query
  dbOutput,          \* what the construction raised or the handler returned,
                     \*   as a sequence of at most one
  create_only,       \* WriteHandler._create_only
  write_args,        \* WriteHandler.handle: invocation.arguments
  files,             \* the filesystem: the content of each regular file
  dirs,              \* the filesystem: the directories below /w
  writePc,           \* "called" or "returned"
  writeOutput,       \* WriteHandler.handle: what it returned, as a sequence
                     \*   of at most one
  edit_args,         \* EditHandler.handle: invocation.arguments
  file_content,      \* the text of the file at the path; Absent; or Directory
  editPc,            \* "called" or "returned"
  editOutput,        \* EditHandler.handle: what it returned, as a sequence
                     \*   of at most one
  profile,           \* ToolFactory.profile
  registered,        \* the ToolRegistry create_registry has built, as a
                     \*   sequence of at most one: name -> how the handler
                     \*   was constructed
  current_turn_index,  \* TelemetryContext.current_turn_index
  total_turns,       \* TelemetryContext.total_turns
  current_turn,      \* TelemetryProcessor._current_turn, as a sequence of at
                     \*   most one
  pending_tool,      \* TelemetryProcessor._pending_tool, as a sequence of at
                     \*   most one
  exporter_turns,    \* the exporter's start_turn and end_turn calls so far
  exporter_tools,    \* the exporter's record_tool_execution calls of the
                     \*   current wrap_turn
  passed,            \* the events the current wrap_turn has yielded
  wrapPc,            \* "idle", "iterating", "breaking" or "finished"
  max_turns,         \* EvalConfig.max_turns
  eval_turns,        \* _run_dbbench_task_*: the local turns
  consecutive_timeouts,  \* _run_dbbench_task_*: the local of that name
  is_submitted,      \* SubmitAnswerHandler.is_submitted
  task_status,       \* _run_dbbench_task_*: the local status
  evalPc,            \* "idle", "in_turn", "returned" or "EvalAbortedError"
  outcomes,          \* history: how each turn of the task ended
  submitted_answer,  \* _run_dbbench_task_*: the local of that name
  evaluated,         \* the answers handed to the evaluator, in order
  submissions,       \* history: the answers the submit tool has accepted
  parallel,          \* EvalConfig.parallel
  runs_jsonl,        \* the lines of runs.jsonl in the run directory
  overall_json,      \* the metrics last written to overall.json, as a
                     \*   sequence of at most one
  metrics,           \* run_dbbench_tasks / dbbench: the local metrics
  run_tasks,         \* the tasks of this invocation that have not returned
  consecutive_errors,  \* run_dbbench_tasks: the local of that name
  runPc,             \* "idle", "running", "finished", "aborted", "killed"
  resumed,           \* the invocation was given --resume
  sessions,          \* invocations of the command so far
  session_results,   \* history: the results this invocation has obtained
  abort_message,     \* what the EvalAbortedError raised says
  _mysql_container,  \* EvalRunner._mysql_container
  container_state,   \* the MySQL container: "none", "starting", "started",
                     \*   "failed", "removed"
  starts,            \* history: calls of MySQLContainer.start
  mysqlPc,           \* per task: "idle", "starting", "has_mysql", "done"
  obtained,          \* history: per task, the state of the container when
                     \*   _ensure_mysql returned it
  db_names,          \* per task, the db_name of _run_dbbench_task_mysql
  signal_dir,        \* the names of the files in the signal directory
  agentPc,           \* per session, the agent's process: "new",
                     \*   "registered", "unlinking", "deregistered"
  cancelPc,          \* per session, the kill command: "idle", "checked"
  cancels,           \* calls of cancel so far
  conversations_dir,  \* the files of the conversations directory: the id
                     \*   in each and its st_mtime
  clock,             \* the time, in seconds
  latest_id          \* what get_latest_id returned last

streamVars == << use_nonstreaming_tools, streamPc, streamEvents, tool_calls_in_progress, chunks, finishSeen >>

bashVars == << restricted, bash_command, bashPc, subprocess_started, bashOutput >>

dbVars == << database, fromFactory, sql, dbPc, executed, dbOutput >>

\* the state of the components that came after the bash handler
writeVars == << create_only, write_args, files, dirs, writePc, writeOutput >>

editVars == << edit_args, file_content, editPc, editOutput >>

factoryVars == << profile, registered >>

processorVars == << current_turn_index, total_turns, current_turn, pending_tool,
                   exporter_turns, exporter_tools, passed, wrapPc >>

evalVars == << max_turns, eval_turns, consecutive_timeouts, is_submitted,
              task_status, evalPc, outcomes, submitted_answer, evaluated,
              submissions >>

runVars == << parallel, runs_jsonl, overall_json, metrics, run_tasks,
             consecutive_errors, runPc, resumed, sessions, session_results,
             abort_message >>

mysqlVars == << _mysql_container, container_state, starts, mysqlPc, obtained,
               db_names >>

signalVars == << signal_dir, agentPc, cancelPc, cancels >>

conversationVars == << conversations_dir, clock, latest_id >>

laterVars == << dbVars, writeVars, editVars, factoryVars, processorVars,
               evalVars, runVars, mysqlVars, signalVars, conversationVars >>

others == << tr_content, tr_max_chars, truncated, sessionHistory, compactLog,
             invocation, dispatched, streamVars, bashVars, laterVars >>

\* how the Agent and its collaborators were built
config == << hasCallback, modelCalls, handlerOutputs, auto_compact, usages,
            extAnswers >>

tokens == << total_input_tokens, total_output_tokens >>

AgentVars == << history, cancel_requested, config, tokens, compacts, tokensAtStart,
                pc, events, text_content, pending, tool_results, cur,
                streamDone, round, toolCalls, turns, rejectedAt, dispatchLog,
                lateModelCall, cancelSeen, lastRet, held >>

vars == << AgentVars, others >>

\* nothing has been handed to truncate_output
TruncateIdle == tr_content = "" /\ tr_max_chars = 0 /\ truncated = <<>>

\* no Session has been handed to compact() on its own
CompactionIdle == sessionHistory = <<>> /\ compactLog = <<>>

\* no dispatch has been made on a registry on its own
RegistryIdle == invocation = <<>> /\ dispatched = <<>>

\* no ModelClient.stream call has been made on its own
StreamIdle ==
  /\ use_nonstreaming_tools = FALSE
  /\ streamPc = "idle" /\ streamEvents = <<>> /\ tool_calls_in_progress = <<>>
  /\ chunks = 0 /\ finishSeen = FALSE

\* no BashHandler.handle call has been made on its own
BashIdle ==
  /\ restricted = TRUE /\ bash_command = "" /\ bashPc = "idle"
  /\ subprocess_started = FALSE /\ bashOutput = <<>>

\* no database handler has been built
DatabaseIdle ==
  /\ database = "readonly" /\ fromFactory = FALSE /\ sql = "" /\ dbPc = "idle"
  /\ executed = <<>> /\ dbOutput = <<>>

\* no WriteHandler.handle call has been made
WriteIdle ==
  /\ create_only = TRUE /\ write_args = << >> /\ files = << >> /\ dirs = {}
  /\ writePc = "idle" /\ writeOutput = <<>>

\* no EditHandler.handle call has been made
EditIdle ==
  edit_args = << >> /\ file_content = "" /\ editPc = "idle" /\ editOutput = <<>>

\* no ToolFactory has been built
FactoryIdle == profile = << >> /\ registered = <<>>

ProcessorIdle ==
  /\ current_turn_index = 0 /\ total_turns = 0 /\ current_turn = <<>>
  /\ pending_tool = <<>> /\ exporter_turns = <<>> /\ exporter_tools = <<>>
  /\ passed = <<>> /\ wrapPc = "idle"

EvalIdle ==
  /\ max_turns = 0 /\ eval_turns = 0 /\ consecutive_timeouts = 0
  /\ is_submitted = FALSE /\ task_status = "" /\ evalPc = "idle"
  /\ outcomes = <<>>
  /\ submitted_answer = None /\ evaluated = <<>> /\ submissions = <<>>

RunIdle ==
  /\ parallel = 0 /\ runs_jsonl = <<>> /\ overall_json = <<>> /\ metrics = <<>>
  /\ run_tasks = <<>> /\ consecutive_errors = 0 /\ runPc = "idle"
  /\ resumed = FALSE /\ sessions = 0 /\ session_results = <<>>
  /\ abort_message = None

MysqlIdle ==
  /\ _mysql_container = None /\ container_state = "none" /\ starts = 0
  /\ mysqlPc = <<>> /\ obtained = <<>> /\ db_names = <<>>

SignalIdle ==
  /\ signal_dir = {} /\ agentPc = <<>> /\ cancelPc = <<>> /\ cancels = 0

ConversationIdle ==
  /\ conversations_dir = {} /\ clock = 0 /\ latest_id = None

\* the components that came after the bash handler are idle, but for `c`
LaterIdleBut(c) ==
  /\ c = "database" \/ DatabaseIdle
  /\ c = "write" \/ WriteIdle
  /\ c = "edit" \/ EditIdle
  /\ c = "factory" \/ FactoryIdle
  /\ c = "processor" \/ ProcessorIdle
  /\ c = "eval" \/ EvalIdle
  /\ c = "run" \/ RunIdle
  /\ c = "mysql" \/ MysqlIdle
  /\ c = "signal" \/ SignalIdle
  /\ c = "conversation" \/ ConversationIdle

LaterIdle == LaterIdleBut("none")

OthersIdle ==
  /\ TruncateIdle /\ CompactionIdle /\ RegistryIdle /\ StreamIdle /\ BashIdle
  /\ LaterIdle

\* ---------------------------------------------------------- truncate_output
\* Python content[:n]
Prefix(str, n) == SubSeq(str, 1, n)

\* Python content[-n:]; content[-0:] is the whole string
Suffix(str, n) == IF n = 0 THEN str ELSE SubSeq(str, Len(str) - n + 1, Len(str))

truncate_output(c, n) ==
  IF Len(c) <= n
  THEN c
  ELSE LET half == n \div 2
           elided == Len(c) - n
       IN Prefix(c, half) \o "\n\n[... " \o ToString(elided)
            \o " chars elided ...]\n\n" \o Suffix(c, half)

\* ----------------------------------------------------------------- Session
UserMsg == [role |-> "user", content |-> "u", tool_calls |-> <<>>, tool_call_id |-> None]

AssistantMsg(text) ==
  [role |-> "assistant", content |-> text, tool_calls |-> <<>>, tool_call_id |-> None]

AssistantToolCalls(tcs) ==
  [role |-> "assistant", content |-> None, tool_calls |-> tcs, tool_call_id |-> None]

ToolMsg(r) ==
  [role |-> "tool", content |-> r.content, tool_calls |-> <<>>, tool_call_id |-> r.tool_call_id]

ToolResult(id, content) == [tool_call_id |-> id, content |-> content]

add_user_message(h) == Append(h, UserMsg)

add_assistant_message(h, text) == Append(h, AssistantMsg(text))

add_assistant_tool_calls(h, tcs) == Append(h, AssistantToolCalls(tcs))

add_tool_results(h, results) == h \o [i \in 1..Len(results) |-> ToolMsg(results[i])]

\* Session.add_user_message(content)
UserMessage(text) ==
  [role |-> "user", content |-> text, tool_calls |-> <<>>, tool_call_id |-> None]

\* Session.get_user_messages: contents of the user messages with content
get_user_messages(h) ==
  LET IsUserWithContent(m) == m.role = "user" /\ m.content # None /\ m.content # ""
      msgs == SelectSeq(h, IsUserWithContent)
  IN [i \in 1..Len(msgs) |-> msgs[i].content]

\* Session.replace_with_summary(summary, recent_user_messages)
replace_with_summary(summary, recent_user_messages) ==
  [i \in 1..Len(recent_user_messages) |-> UserMessage(recent_user_messages[i])]
    \o << UserMessage(summary) >>

\* Session.update_token_usage, for one of the two totals: a version that
\* stores the report in place of adding it ...
update_token_usage_Assign(total, reported) == reported

\* ... and the program's
update_token_usage(total, reported) == total + reported

\* json.dumps(tc.arguments), for a representative of each kind of arguments
Json(arguments) ==
  CASE arguments = "object" -> "{}"
    [] arguments = "array" -> "[]"
    [] OTHER -> "{\"path\": \"rm -rf /\"}"

\* str() of one entry of tool_calls
StrOfToolCall(tc) ==
  "{'id': '" \o tc.id \o "', 'type': 'function', 'function': {'name': '"
    \o tc.name \o "', 'arguments': '" \o Json(tc.arguments) \o "'}}"

\* str(m["tool_calls"])
RECURSIVE JoinToolCalls(_)
JoinToolCalls(tcs) ==
  IF Len(tcs) = 1 THEN StrOfToolCall(tcs[1])
  ELSE StrOfToolCall(tcs[1]) \o ", " \o JoinToolCalls(Tail(tcs))

StrOfToolCalls(tcs) == "[" \o JoinToolCalls(tcs) \o "]"

RECURSIVE total_chars(_)
total_chars(h) ==
  IF h = <<>> THEN Len(system_prompt)
  ELSE LET m == h[Len(h)] IN
       total_chars(SubSeq(h, 1, Len(h) - 1))
         + (IF m.content # None THEN Len(m.content) ELSE 0)
         + (IF m.tool_calls # <<>> THEN Len(StrOfToolCalls(m.tool_calls)) ELSE 0)

\* Session.estimate_tokens
estimate_tokens(h) == total_chars(h) \div 4

\* ------------------------------------------------------------------ compact
\* int(self._context_limit * AUTO_COMPACT_THRESHOLD), the threshold being 0.8
threshold == (context_limit * 8) \div 10

\* a should_auto_compact that does not look at the auto_compact flag
should_auto_compact_NoFlag(flag, h) == estimate_tokens(h) > threshold

\* Agent.should_auto_compact
should_auto_compact(flag, h) ==
  IF ~flag THEN FALSE ELSE estimate_tokens(h) > threshold
SUMMARY_PREFIX ==
  "Another language model worked on this task and produced a summary of its progress. Use this to build on the work that has already been done and avoid duplicating effort. Here is the summary:\n\n"

\* what client.complete may return as the summary: the model's text ...
ModelSummaries == {"summary"}

\* ... or the text complete() makes of a failed request
Summaries == ModelSummaries \cup {"Error: timeout"}

\* user_messages[-3:] if len(user_messages) > 3 else []
recent_messages(user_messages) ==
  IF Len(user_messages) > 3
  THEN SubSeq(user_messages, Len(user_messages) - 2, Len(user_messages))
  ELSE <<>>

\* Agent.compact from the summary on: the history it leaves in the Session
compact(h, summary) ==
  replace_with_summary(SUMMARY_PREFIX \o summary,
                       recent_messages(get_user_messages(h)))

\* ---------------------------------------------------------------- Registry
\* a registry that lets unregistered names through
requires_approval_UnknownFree(name) ==
  IF name \in DOMAIN Handlers THEN Handlers[name] ELSE FALSE

requires_approval(name) ==
  IF name \in DOMAIN Handlers THEN Handlers[name] ELSE TRUE

\* ApprovalPolicy._check_dangerous_patterns: some pattern occurs in the
\* joined argument values
check_dangerous_patterns(arguments) == arguments \in DEFAULT_DANGEROUS_PATTERNS

\* what dispatch does: it returns a ToolOutput or raises
Returned(text, success) == [raised |-> None, content |-> text, success |-> success]

Raised(exc) == [raised |-> exc, content |-> None, success |-> FALSE]

\* the except clauses of dispatch, with a cancellation handled as any other
\* exception
on_exception_Swallow(inv, exc) ==
  Returned("Tool '" \o inv.tool_name \o "' failed: " \o exc \o ": msg\nArguments: "
             \o Json(inv.arguments), FALSE)

\* the except clauses of dispatch: handler.handle raised exc
on_exception(inv, exc) ==
  IF exc = "CancelledError"
  THEN Raised(exc)
  ELSE Returned("Tool '" \o inv.tool_name \o "' failed: " \o exc \o ": msg\nArguments: "
                  \o Json(inv.arguments), FALSE)

\* list.index: position of the first element equal to x
Index(seq, x) == CHOOSE i \in 1..Len(seq) : seq[i] = x /\ \A j \in 1..(i-1) : seq[j] # x

\* ------------------------------------------------------------ cancellation
\* what self._cancel_check() may answer when it is called; an Agent built
\* without cancel_check behaves as one whose predicate always answers false
ExtAnswers == BOOLEAN

NoCancelCheck == {FALSE}

\* Agent.is_cancelled: the value returned, ext being the predicate's answer ...
IsCancelledResult(flag, ext) == flag \/ ext

\* an is_cancelled that does not latch what the external predicate said
IsCancelledFlag_NoLatch(flag, ext) == flag

\* ... and the value left in _cancel_requested (the latch)
IsCancelledFlag(flag, ext) == flag \/ ext

\* ------------------------------------------------------- run_turn, pieces
\* AgentEvent; round and idx (history) tell which tool call the event is about
Event(type, name, result, r, i) ==
  [type |-> type, content |-> None, tool_name |-> name, tool_result |-> result,
   round |-> r, idx |-> i]

Plain(type) == Event(type, None, None, 0, 0)

\* AgentEvent(type="compact_start" / "compact_end", content=...)
CompactEvent(type, text) == [Plain(type) EXCEPT !.content = text]

\* the content of compact_end ("->" stands for the arrow character)
Compacted(tokens_before, tokens_after) ==
  "Compacted: " \o ToString(tokens_before) \o " -> " \o ToString(tokens_after)
    \o " tokens"

\* the coroutine's state as one record
Now ==
  [ history |-> history, cancel_requested |-> cancel_requested, pc |-> pc,
    events |-> events, text_content |-> text_content, pending |-> pending,
    tool_results |-> tool_results, cur |-> cur, streamDone |-> streamDone,
    round |-> round, toolCalls |-> toolCalls, rejectedAt |-> rejectedAt,
    dispatchLog |-> dispatchLog, lateModelCall |-> lateModelCall,
    cancelSeen |-> cancelSeen, lastRet |-> lastRet, held |-> held ]

Becomes(s) ==
  /\ history' = s.history
  /\ cancel_requested' = s.cancel_requested
  /\ pc' = s.pc
  /\ events' = s.events
  /\ text_content' = s.text_content
  /\ pending' = s.pending
  /\ tool_results' = s.tool_results
  /\ cur' = s.cur
  /\ streamDone' = s.streamDone
  /\ round' = s.round
  /\ toolCalls' = s.toolCalls
  /\ rejectedAt' = s.rejectedAt
  /\ dispatchLog' = s.dispatchLog
  /\ lateModelCall' = s.lateModelCall
  /\ cancelSeen' = s.cancelSeen
  /\ lastRet' = s.lastRet
  /\ held' = s.held

\* a call of self.is_cancelled(); the result is left in .lastRet
Check(s, ext) ==
  [s EXCEPT !.lastRet = IsCancelledResult(s.cancel_requested, ext),
            !.held = @ \/ (s.cancelSeen /\ ~ext
                              /\ IsCancelledResult(s.cancel_requested, ext)),
            !.cancelSeen = @ \/ IsCancelledResult(s.cancel_requested, ext),
            !.cancel_requested = IsCancelledFlag(s.cancel_requested, ext)]

Yield(s, e) == [s EXCEPT !.events = Append(@, e)]

\* yield a terminal event and return
Return(s, type) == [Yield(s, Plain(type)) EXCEPT !.pc = "returned"]

\* top of `while True`: cancellation check, then the model call
LoopTop(s0, ext) ==
  LET s == Check(s0, ext) IN
  IF s.lastRet
  THEN Return(s, "cancelled")
  ELSE [s EXCEPT !.pc = "await_stream", !.text_content = "", !.pending = <<>>,
                 !.tool_results = <<>>, !.cur = 0, !.streamDone = FALSE,
                 !.round = @ + 1,
                 !.lateModelCall = @ \/ s.cancel_requested]

\* invocation = ToolInvocation(...); await self._registry.dispatch(invocation)
Dispatch(s, i, approved) ==
  [s EXCEPT !.pc = "await_dispatch", !.cur = i,
            !.dispatchLog = Append(@, [round |-> s.round, idx |-> i,
                                       name |-> s.pending[i].name,
                                       arguments |-> s.pending[i].arguments,
                                       approved |-> approved,
                                       cancelled |-> s.cancel_requested])]

\* iteration i of `for ... in pending_tool_calls`, and what follows the loop
ToolLoop(s0, i, ext) ==
  IF i > Len(s0.pending)
  THEN LoopTop([s0 EXCEPT !.history = add_tool_results(@, s0.tool_results)], ext)
  ELSE LET s == Check(s0, ext) IN
       IF s.lastRet
       THEN Return(s, "cancelled")
       ELSE IF hasCallback /\ requires_approval(s.pending[i].name)
            THEN [s EXCEPT !.pc = "await_approval", !.cur = i]
            ELSE Dispatch(s, i, FALSE)

\* the callback returned false: lines 348-373, then 396-408
Rejected(s) ==
  LET call == s.pending[s.cur]
      rest == SubSeq(s.pending, Index(s.pending, call) + 1, Len(s.pending))
      results == Append(s.tool_results, ToolResult(call.id, REJECTED))
                   \o [j \in 1..Len(rest) |-> ToolResult(rest[j].id, SKIPPED)]
      s1 == Yield(s, Event("tool_blocked", call.name, None, s.round, s.cur))
  IN Return([s1 EXCEPT !.tool_results = results,
                       !.rejectedAt = s.cur,
                       !.history = add_tool_results(@, results)],
            "turn_complete")

\* dispatch returned `content`: lines 381-394, then the next iteration
ToolEnd(s, content, ext) ==
  LET call == s.pending[s.cur]
      truncated_content == truncate_output(content, MAX_TOOL_OUTPUT_CHARS)
      s1 == [s EXCEPT !.tool_results =
                        Append(@, ToolResult(call.id, truncated_content))]
  IN ToolLoop(Yield(s1, Event("tool_end", call.name, truncated_content,
                              s.round, s.cur)),
              s.cur + 1, ext)

\* ----------------------------------------------------------------- actions
\* the Agent after construction
AgentStart ==
  /\ history = <<>>
  /\ cancel_requested = FALSE
  /\ hasCallback \in BOOLEAN
  /\ pc = "idle"
  /\ events = <<>>
  /\ text_content = ""
  /\ pending = <<>>
  /\ tool_results = <<>>
  /\ cur = 0
  /\ streamDone = FALSE
  /\ round = 0
  /\ toolCalls = 0
  /\ turns = 0
  /\ rejectedAt = 0
  /\ dispatchLog = <<>>
  /\ lateModelCall = FALSE
  /\ cancelSeen = FALSE
  /\ lastRet = FALSE
  /\ held = FALSE
  /\ total_input_tokens = 0
  /\ total_output_tokens = 0
  /\ compacts = 0
  /\ tokensAtStart = 0

AgentInit == AgentStart /\ OthersIdle

\* Agent(..., auto_compact=False), a provider that reports no usage
Init ==
  /\ AgentInit
  /\ modelCalls = ToolCalls /\ handlerOutputs = ShortOutputs
  /\ auto_compact = FALSE /\ usages = NoUsage
  /\ extAnswers = ExtAnswers

Frame == UNCHANGED << config, tokens, compacts, tokensAtStart, turns, others >>

\* the usage reports that keep the totals within the explored range
Reports == { u \in usages : total_input_tokens + u.input_tokens <= MaxTokens }

\* result = await self.compact(trigger="auto") has returned: lines 238-244,
\* then the loop
AfterAutoCompact(s, tokens_before, ext) ==
  LET s1 == Yield(s, CompactEvent("compact_end",
                                  Compacted(tokens_before, estimate_tokens(s.history))))
  IN LoopTop([s1 EXCEPT !.history = add_user_message(@)], ext)

\* run_turn(user_input) up to its first await
RunTurn ==
  /\ pc \in {"idle", "returned", "raised"}
  /\ turns < MaxTurns
  /\ turns' = turns + 1
  /\ tokensAtStart' = estimate_tokens(history)
  /\ LET s == [Now EXCEPT !.cancel_requested = FALSE,
                          !.cancelSeen = FALSE, !.lastRet = FALSE,
                          !.held = FALSE,
                          !.events = <<>>, !.round = 0,
                          !.text_content = "", !.pending = <<>>,
                          !.tool_results = <<>>, !.cur = 0,
                          !.streamDone = FALSE,
                          !.rejectedAt = 0, !.dispatchLog = <<>>,
                          !.lateModelCall = FALSE]
     IN IF should_auto_compact(auto_compact, history)
        THEN Becomes([Yield(s, CompactEvent("compact_start", "auto"))
                        EXCEPT !.pc = "await_compact"])
        ELSE \E ext \in extAnswers :
               Becomes(LoopTop([s EXCEPT !.history = add_user_message(@)], ext))
  /\ UNCHANGED << config, tokens, compacts, others >>

\* compact(trigger="auto"): client.complete returns; the rest of compact and
\* of run_turn up to its next await
AutoCompactDone ==
  /\ pc = "await_compact"
  /\ \E summary \in ModelSummaries, u \in Reports, ext \in extAnswers :
       /\ Becomes(AfterAutoCompact([Now EXCEPT !.history = compact(@, summary)],
                                   estimate_tokens(history), ext))
       /\ total_input_tokens' = update_token_usage(total_input_tokens, u.input_tokens)
       /\ total_output_tokens' = update_token_usage(total_output_tokens, u.output_tokens)
  /\ UNCHANGED << config, compacts, tokensAtStart, turns, others >>

\* Agent.compact() called between turns, up to its await of client.complete
Compact ==
  /\ pc \in {"idle", "returned", "raised"}
  /\ compacts < MaxManualCompacts
  /\ compacts' = compacts + 1
  /\ Becomes([Now EXCEPT !.pc = "await_complete"])
  /\ UNCHANGED << config, tokens, tokensAtStart, turns, others >>

\* ... client.complete returns, and the rest of compact()
CompactDone ==
  /\ pc = "await_complete"
  /\ \E summary \in ModelSummaries, u \in Reports :
       /\ Becomes([Now EXCEPT !.pc = "idle", !.history = compact(@, summary)])
       /\ total_input_tokens' = update_token_usage(total_input_tokens, u.input_tokens)
       /\ total_output_tokens' = update_token_usage(total_output_tokens, u.output_tokens)
  /\ UNCHANGED << config, compacts, tokensAtStart, turns, others >>

\* the stream delivers a text chunk
StreamText ==
  /\ pc = "await_stream" /\ ~streamDone
  /\ text_content = "" /\ pending = <<>>
  /\ \E ext \in extAnswers :
       LET s == Check(Now, ext) IN
       Becomes(IF s.lastRet THEN Return(s, "cancelled")
               ELSE Yield([s EXCEPT !.text_content = "t"], Plain("text")))
  /\ Frame

\* the stream delivers an assembled tool call
StreamToolCall ==
  /\ pc = "await_stream" /\ ~streamDone
  /\ toolCalls < MaxToolCalls
  /\ \E tc \in modelCalls, ext \in extAnswers :
       LET s == Check(Now, ext) IN
       Becomes(IF s.lastRet THEN Return(s, "cancelled")
               ELSE [Yield(s, Event("tool_start", tc.name, None, s.round, Len(s.pending) + 1))
                       EXCEPT !.pending = Append(@, tc), !.toolCalls = @ + 1])
  /\ Frame

\* the stream delivers done (usage)
StreamDone ==
  /\ pc = "await_stream" /\ ~streamDone
  /\ \E u \in Reports, ext \in extAnswers :
       LET s == Check(Now, ext) IN
       IF s.lastRet
       THEN Becomes(Return(s, "cancelled")) /\ UNCHANGED tokens
       ELSE /\ Becomes([s EXCEPT !.streamDone = TRUE])
            /\ total_input_tokens' = update_token_usage(total_input_tokens, u.input_tokens)
            /\ total_output_tokens' = update_token_usage(total_output_tokens, u.output_tokens)
  /\ UNCHANGED << config, compacts, tokensAtStart, turns, others >>

\* the stream delivers error
StreamError ==
  /\ pc = "await_stream"
  /\ \E ext \in extAnswers :
       LET s == Check(Now, ext) IN
       Becomes(IF s.lastRet THEN Return(s, "cancelled") ELSE Return(s, "error"))
  /\ Frame

\* the stream is exhausted: lines 317-341
StreamEnd ==
  /\ pc = "await_stream"
  /\ LET s == [Now EXCEPT !.streamDone = FALSE, !.history =
                 IF pending # <<>> THEN add_assistant_tool_calls(@, pending)
                 ELSE IF text_content # "" THEN add_assistant_message(@, text_content)
                 ELSE @]
     IN \E ext \in extAnswers :
          Becomes(IF pending = <<>> THEN Return(s, "turn_complete")
                  ELSE ToolLoop(s, 1, ext))
  /\ Frame

\* the approval callback returns true
ApprovalGranted ==
  /\ pc = "await_approval"
  /\ Becomes(Dispatch(Now, cur, TRUE))
  /\ Frame

\* the approval callback returns false
ApprovalDenied ==
  /\ pc = "await_approval"
  /\ Becomes(Rejected(Now))
  /\ Frame

\* the approval callback raises
ApprovalRaises ==
  /\ pc = "await_approval"
  /\ Becomes([Now EXCEPT !.pc = "raised"])
  /\ Frame

\* Registry.dispatch: no handler of that name
DispatchUnknown ==
  /\ pc = "await_dispatch"
  /\ pending[cur].name \notin DOMAIN Handlers
  /\ \E ext \in extAnswers :
       Becomes(ToolEnd(Now, "Unknown tool: " \o pending[cur].name, ext))
  /\ Frame

\* Registry.dispatch: _coerce_arguments raises on arguments that are no dict
DispatchRaises ==
  /\ pc = "await_dispatch"
  /\ pending[cur].name \in DOMAIN Handlers
  /\ pending[cur].arguments = "array"
  /\ Becomes([Now EXCEPT !.pc = "raised"])
  /\ Frame

\* Registry.dispatch: the handler returns its output, or raises and dispatch
\* turns the exception into a failed output; either way a content string
DispatchHandled ==
  /\ pc = "await_dispatch"
  /\ pending[cur].name \in DOMAIN Handlers
  /\ pending[cur].arguments # "array"
  /\ \E out \in handlerOutputs, ext \in extAnswers :
       Becomes(ToolEnd(Now, out, ext))
  /\ Frame

\* Agent.request_cancel(), from a signal handler or another task
RequestCancel ==
  /\ pc \in {"await_stream", "await_approval", "await_dispatch", "await_compact"}
  /\ ~cancel_requested
  /\ Becomes([Now EXCEPT !.cancel_requested = TRUE])
  /\ Frame

\* Agent.is_cancelled() called from outside run_turn
PollCancelled ==
  /\ \E ext \in extAnswers : Becomes(Check(Now, ext))
  /\ Frame

Next ==
  \/ RunTurn
  \/ StreamText
  \/ StreamToolCall
  \/ StreamDone
  \/ StreamError
  \/ StreamEnd
  \/ ApprovalGranted
  \/ ApprovalDenied
  \/ ApprovalRaises
  \/ DispatchUnknown
  \/ DispatchRaises
  \/ DispatchHandled
  \/ RequestCancel
  \/ PollCancelled

Spec == Init /\ [][Next]_vars

\* the same Agent, with calls whose arguments hold a dangerous pattern and
\* handlers whose output may exceed MAX_TOOL_OUTPUT_CHARS
PayloadInit ==
  /\ AgentInit
  /\ modelCalls = PayloadCalls /\ handlerOutputs = PayloadOutputs
  /\ auto_compact = FALSE /\ usages = NoUsage
  /\ extAnswers = ExtAnswers

PayloadSpec == PayloadInit /\ [][Next]_vars

\* an Agent with an approval callback that does not raise and no
\* cancel_check, with auto-compaction enabled or not, compact() called
\* between turns, a model that returns JSON objects as arguments and a
\* provider that reports usage
AutoCompactInit ==
  /\ AgentInit
  /\ hasCallback
  /\ modelCalls = CompactCalls /\ handlerOutputs = ShortOutputs
  /\ auto_compact \in BOOLEAN /\ usages = Usages
  /\ extAnswers = NoCancelCheck

AutoCompactNext ==
  \/ RunTurn
  \/ AutoCompactDone
  \/ StreamText
  \/ StreamToolCall
  \/ StreamDone
  \/ StreamError
  \/ StreamEnd
  \/ ApprovalGranted
  \/ ApprovalDenied
  \/ DispatchUnknown
  \/ DispatchHandled
  \/ RequestCancel
  \/ Compact
  \/ CompactDone

AutoCompactSpec == AutoCompactInit /\ [][AutoCompactNext]_vars

\* ------------------------------------------- truncate_output on its own
\* the Agent's variables while another component is exercised
AgentIdle ==
  /\ history = <<>> /\ cancel_requested = FALSE /\ hasCallback = FALSE
  /\ modelCalls = {} /\ handlerOutputs = {}
  /\ auto_compact = FALSE /\ usages = {} /\ extAnswers = {}
  /\ total_input_tokens = 0 /\ total_output_tokens = 0
  /\ compacts = 0 /\ tokensAtStart = 0
  /\ pc = "idle" /\ events = <<>> /\ text_content = "" /\ pending = <<>>
  /\ tool_results = <<>> /\ cur = 0 /\ streamDone = FALSE /\ round = 0
  /\ toolCalls = 0 /\ turns = 0 /\ rejectedAt = 0 /\ dispatchLog = <<>>
  /\ lateModelCall = FALSE /\ cancelSeen = FALSE /\ lastRet = FALSE
  /\ held = FALSE

\* the Agent and the components up to the bash handler are idle
EarlierIdle ==
  AgentIdle /\ TruncateIdle /\ CompactionIdle /\ RegistryIdle /\ StreamIdle
    /\ BashIdle

\* and stay as they are
EarlierFrame ==
  UNCHANGED << AgentVars, tr_content, tr_max_chars, truncated, sessionHistory,
               compactLog, invocation, dispatched, streamVars, bashVars >>

Chars == {"a", "b"}

RECURSIVE StringsOfLen(_)
StringsOfLen(n) ==
  IF n = 0 THEN {""} ELSE { str \o ch : str \in StringsOfLen(n - 1), ch \in Chars }

Strings == UNION { StringsOfLen(n) : n \in 0..MaxLen }

TruncateInit ==
  /\ AgentIdle
  /\ CompactionIdle
  /\ RegistryIdle
  /\ StreamIdle
  /\ BashIdle
  /\ LaterIdle
  /\ tr_content \in Strings
  /\ tr_max_chars \in 0..MaxLimit
  /\ truncated = <<>>

\* truncate_output(content, max_chars), then truncate_output of the result
Truncate ==
  /\ Len(truncated) < 2
  /\ truncated' = Append(truncated,
                         truncate_output(IF truncated = <<>> THEN tr_content
                                         ELSE truncated[Len(truncated)],
                                         tr_max_chars))
  /\ UNCHANGED << tr_content, tr_max_chars, AgentVars, sessionHistory, compactLog,
                  invocation, dispatched, streamVars, bashVars, laterVars >>

TruncateNext == Truncate

TruncateSpec == TruncateInit /\ [][TruncateNext]_vars

\* ---------------------------------------------------- compact() on its own
\* messages of a Session that is handed to compact(), e.g. a resumed one
Messages == { UserMessage("a"), UserMessage("b"), AssistantMsg("t") }

RECURSIVE HistoriesOfLen(_)
HistoriesOfLen(n) ==
  IF n = 0 THEN { <<>> }
  ELSE { Append(h, m) : h \in HistoriesOfLen(n - 1), m \in Messages }

Histories == UNION { HistoriesOfLen(n) : n \in 0..MaxHistory }

CompactionInit ==
  /\ AgentIdle
  /\ TruncateIdle
  /\ RegistryIdle
  /\ StreamIdle
  /\ BashIdle
  /\ LaterIdle
  /\ sessionHistory \in Histories
  /\ compactLog = <<>>

\* one compact() call, client.complete returning `summary`
CompactSession ==
  /\ Len(compactLog) < MaxCompacts
  /\ \E summary \in Summaries :
       /\ sessionHistory' = compact(sessionHistory, summary)
       /\ compactLog' = Append(compactLog,
                               [before |-> sessionHistory, summary |-> summary,
                                after |-> compact(sessionHistory, summary)])
  /\ UNCHANGED << AgentVars, tr_content, tr_max_chars, truncated, invocation,
                  dispatched, streamVars, bashVars, laterVars >>

CompactionNext == CompactSession

CompactionSpec == CompactionInit /\ [][CompactionNext]_vars

\* ----------------------------------------------------- dispatch on its own
Invocations ==
  [call_id : {"c1"}, tool_name : {"read", "bash", "nope"},
   arguments : {"object", "array"}]

\* what handler.handle may raise: an Exception, or asyncio.CancelledError
HandlerExceptions == {"ValueError", "CancelledError"}

DispatchEntry(inv, invoked, exc, outcome) ==
  [invocation |-> inv, invoked |-> invoked, handlerRaised |-> exc, outcome |-> outcome]

RegistryInit ==
  /\ AgentIdle
  /\ TruncateIdle
  /\ CompactionIdle
  /\ RegistryIdle
  /\ StreamIdle
  /\ BashIdle
  /\ LaterIdle

RegistryFrame ==
  UNCHANGED << AgentVars, tr_content, tr_max_chars, truncated, sessionHistory,
               compactLog, streamVars, bashVars, laterVars >>

\* dispatch(invocation) up to `await handler.handle(...)`
DispatchCall ==
  /\ invocation = <<>>
  /\ Len(dispatched) < MaxDispatches
  /\ \E inv \in Invocations :
       IF inv.tool_name \notin DOMAIN Handlers
       THEN /\ dispatched' = Append(dispatched,
              DispatchEntry(inv, FALSE, None,
                            Returned("Unknown tool: " \o inv.tool_name, FALSE)))
            /\ UNCHANGED invocation
       ELSE IF inv.arguments = "array"
       THEN /\ dispatched' = Append(dispatched,
              DispatchEntry(inv, FALSE, None, Raised("TypeError")))
            /\ UNCHANGED invocation
       ELSE invocation' = << inv >> /\ UNCHANGED dispatched
  /\ RegistryFrame

\* handler.handle returns its ToolOutput
HandlerReturns ==
  /\ invocation # <<>>
  /\ dispatched' = Append(dispatched,
        DispatchEntry(invocation[1], TRUE, None, Returned("output", TRUE)))
  /\ invocation' = <<>>
  /\ RegistryFrame

\* handler.handle raises
HandlerRaises ==
  /\ invocation # <<>>
  /\ \E exc \in HandlerExceptions :
       dispatched' = Append(dispatched,
         DispatchEntry(invocation[1], TRUE, exc, on_exception(invocation[1], exc)))
  /\ invocation' = <<>>
  /\ RegistryFrame

RegistryNext == DispatchCall \/ HandlerReturns \/ HandlerRaises

RegistrySpec == RegistryInit /\ [][RegistryNext]_vars

\* ------------------------------------------- ModelClient.stream on its own
StreamEvent(type, payload) == [type |-> type, payload |-> payload]

\* the tool_call events yielded when a chunk carries finish_reason
ToolCallEvents(indices) ==
  [i \in 1..Len(indices) |-> StreamEvent("tool_call", indices[i])]

\* prompt.tools and self._use_nonstreaming_tools: _stream_via_complete; else
\* the streaming request
StreamInit ==
  /\ AgentIdle
  /\ TruncateIdle
  /\ CompactionIdle
  /\ RegistryIdle
  /\ BashIdle
  /\ LaterIdle
  /\ use_nonstreaming_tools \in BOOLEAN
  /\ streamPc = "running"
  /\ streamEvents = <<>>
  /\ tool_calls_in_progress = <<>>
  /\ chunks = 0
  /\ finishSeen = FALSE

StreamFrame ==
  UNCHANGED << AgentVars, tr_content, tr_max_chars, truncated, sessionHistory,
               compactLog, invocation, dispatched, bashVars, laterVars >>

\* a chunk arrives in the async for
Streaming == streamPc = "running" /\ ~use_nonstreaming_tools

ViaComplete == streamPc = "running" /\ use_nonstreaming_tools

Receive == Streaming /\ chunks < MaxChunks /\ chunks' = chunks + 1

\* a chunk without choices that carries usage
ChunkUsage ==
  /\ Receive
  /\ streamEvents' = Append(streamEvents, StreamEvent("done", "usage"))
  /\ UNCHANGED << use_nonstreaming_tools, streamPc, tool_calls_in_progress, finishSeen >>
  /\ StreamFrame

\* a chunk whose delta has content
ChunkText ==
  /\ Receive
  /\ streamEvents' = Append(streamEvents, StreamEvent("text", "t"))
  /\ UNCHANGED << use_nonstreaming_tools, streamPc, tool_calls_in_progress, finishSeen >>
  /\ StreamFrame

\* a chunk whose delta has a piece of the tool call with index idx
ChunkToolCall ==
  /\ Receive
  /\ \E idx \in {0, 1} :
       tool_calls_in_progress' =
         IF \E i \in 1..Len(tool_calls_in_progress) : tool_calls_in_progress[i] = idx
         THEN tool_calls_in_progress
         ELSE Append(tool_calls_in_progress, idx)
  /\ UNCHANGED << use_nonstreaming_tools, streamPc, streamEvents, finishSeen >>
  /\ StreamFrame

\* a chunk with finish_reason
ChunkFinish ==
  /\ Receive
  /\ streamEvents' = streamEvents \o ToolCallEvents(tool_calls_in_progress)
  /\ tool_calls_in_progress' = <<>>
  /\ finishSeen' = TRUE
  /\ UNCHANGED << use_nonstreaming_tools, streamPc >>
  /\ StreamFrame

\* the request or the iteration raises
ProviderRaises ==
  /\ Streaming
  /\ streamEvents' = Append(streamEvents, StreamEvent("error", "str(e)"))
  /\ streamPc' = "ended"
  /\ UNCHANGED << use_nonstreaming_tools, tool_calls_in_progress, chunks, finishSeen >>
  /\ StreamFrame

\* the provider's stream is exhausted; it ends a completion it did not fail
\* with a finish_reason chunk, and after that possibly a usage chunk
StreamExhausted ==
  /\ Streaming
  /\ finishSeen
  /\ streamPc' = "ended"
  /\ UNCHANGED << use_nonstreaming_tools, streamEvents, tool_calls_in_progress,
                  chunks, finishSeen >>
  /\ StreamFrame

\* _stream_via_complete: the response arrives, with text or tool calls or both
CompleteResponds ==
  /\ ViaComplete
  /\ \E text \in {<<>>, << StreamEvent("text", "t") >>},
        calls \in {<<>>, <<0>>, <<0, 1>>} :
       streamEvents' = text \o ToolCallEvents(calls)
                         \o << StreamEvent("done", "usage") >>
  /\ streamPc' = "ended"
  /\ UNCHANGED << use_nonstreaming_tools, tool_calls_in_progress, chunks, finishSeen >>
  /\ StreamFrame

\* _stream_via_complete: the request raises
CompleteRaises ==
  /\ ViaComplete
  /\ streamEvents' = << StreamEvent("error", "str(e)") >>
  /\ streamPc' = "ended"
  /\ UNCHANGED << use_nonstreaming_tools, tool_calls_in_progress, chunks, finishSeen >>
  /\ StreamFrame

StreamNext ==
  \/ ChunkUsage
  \/ ChunkText
  \/ ChunkToolCall
  \/ ChunkFinish
  \/ ProviderRaises
  \/ StreamExhausted
  \/ CompleteResponds
  \/ CompleteRaises

StreamSpec == StreamInit /\ [][StreamNext]_vars

\* ------------------------------------------- the bash handler on its own
\* the allowlist of RESTRICTED mode
ALLOWED_COMMANDS ==
  {
    "ack", "ag", "awk", "cat", "cmp", "column", "comm", "curl", "cut",
    "date", "df", "diff", "dig", "du", "echo", "env", "expand", "file",
    "find", "fmt", "fold", "free", "git", "grep", "gunzip", "gzip", "head",
    "hexdump", "host", "hostname", "jq", "less", "locate", "ls", "md5",
    "more", "netstat", "nl", "nslookup", "od", "ping", "pr", "printenv",
    "printf", "ps", "pwd", "rg", "sed", "sha256sum", "shasum", "sort",
    "ss", "stat", "strings", "tail", "tar", "top", "tr", "tree", "uname",
    "unexpand", "uniq", "unzip", "uptime", "wc", "wget", "whereis",
    "which", "whoami", "xmllint", "xxd", "yq", "zcat", "zgrep", "zipinfo",
    "zless"
  }

\* the patterns blocked in RESTRICTED mode, in the order they are tried
DANGEROUS_PATTERNS ==
  <<
    ">", ">>", "rm ", "rm\t", "rmdir", "mv ", "mv\t", "cp ", "cp\t",
    "chmod", "chown", "chgrp", "mkdir", "touch", "truncate", "shred",
    "dd ", "dd\t", "mkfs", "mount", "umount", "kill", "pkill", "killall",
    "reboot", "shutdown", "halt", "poweroff", "systemctl", "service",
    "apt", "yum", "dnf", "brew ", "pip ", "npm ", "yarn ", "cargo ",
    "sudo", "su ", "su\t", "doas"
  >>

\* str.strip() and str.split() without arguments cut at whitespace
Whitespace == {" ", "\t", "\n"}

\* pattern in command
Contains(command, pattern) ==
  \E i \in 1..(Len(command) - Len(pattern) + 1) :
    SubSeq(command, i, i + Len(pattern) - 1) = pattern

\* command.split(sep)[0]
BeforeFirst(command, sep) ==
  LET at == CHOOSE i \in 1..(Len(command) - Len(sep) + 1) :
              /\ SubSeq(command, i, i + Len(sep) - 1) = sep
              /\ \A j \in 1..(i - 1) : SubSeq(command, j, j + Len(sep) - 1) # sep
  IN SubSeq(command, 1, at - 1)

RECURSIVE lstrip(_)
lstrip(str) ==
  IF str # "" /\ SubSeq(str, 1, 1) \in Whitespace
  THEN lstrip(SubSeq(str, 2, Len(str)))
  ELSE str

RECURSIVE rstrip(_)
rstrip(str) ==
  IF str # "" /\ SubSeq(str, Len(str), Len(str)) \in Whitespace
  THEN rstrip(SubSeq(str, 1, Len(str) - 1))
  ELSE str

strip(str) == rstrip(lstrip(str))

\* if sep in command: command = command.split(sep)[0].strip()
FirstOf(command, sep) ==
  IF Contains(command, sep) THEN strip(BeforeFirst(command, sep)) ELSE command

\* length of the run of non-whitespace characters str starts with
RECURSIVE WordLen(_)
WordLen(str) ==
  IF str = "" \/ SubSeq(str, 1, 1) \in Whitespace THEN 0
  ELSE 1 + WordLen(SubSeq(str, 2, Len(str)))

\* str.split()
RECURSIVE split(_)
split(str) ==
  IF lstrip(str) = "" THEN <<>>
  ELSE LET rest == lstrip(str)
           n == WordLen(rest)
       IN << SubSeq(rest, 1, n) >> \o split(SubSeq(rest, n + 1, Len(rest)))

\* the first command of a pipe and of a chain, then the first word that is
\* not a VAR=value assignment
extract_base_command(command) ==
  LET first == FirstOf(FirstOf(FirstOf(FirstOf(command, "|"), "&&"), ";"), "||")
      parts == split(first)
  IN IF \E i \in 1..Len(parts) : ~Contains(parts[i], "=")
     THEN parts[CHOOSE i \in 1..Len(parts) :
                  /\ ~Contains(parts[i], "=")
                  /\ \A j \in 1..(i - 1) : Contains(parts[j], "=")]
     ELSE IF parts # <<>> THEN parts[1] ELSE None

\* the first pattern of DANGEROUS_PATTERNS that occurs in command
FirstPattern(command) ==
  DANGEROUS_PATTERNS[CHOOSE i \in 1..Len(DANGEROUS_PATTERNS) :
                       /\ Contains(command, DANGEROUS_PATTERNS[i])
                       /\ \A j \in 1..(i - 1) :
                            ~Contains(command, DANGEROUS_PATTERNS[j])]

\* the allowlist check alone
check_allowlist(command) ==
  LET base_cmd == extract_base_command(command) IN
  IF base_cmd = None THEN << FALSE, "Could not parse command" >>
  ELSE IF base_cmd \notin ALLOWED_COMMANDS
  THEN << FALSE, "Command '" \o base_cmd \o "' is not in the allowlist" >>
  ELSE << TRUE, "" >>

\* is_command_allowed without the loop over DANGEROUS_PATTERNS
is_command_allowed_NoPatterns(command) == check_allowlist(command)

\* (allowed, reason)
is_command_allowed(command) ==
  IF \E i \in 1..Len(DANGEROUS_PATTERNS) : Contains(command, DANGEROUS_PATTERNS[i])
  THEN << FALSE, "Command contains dangerous pattern: "
                   \o strip(FirstPattern(command)) >>
  ELSE check_allowlist(command)

\* the pieces the command strings are put together from
Pieces == {"cat", "sudo", "rm ", "foo", "A=1", " ", "|", "&&", ";", ">"}

RECURSIVE CommandsOf(_)
CommandsOf(n) ==
  IF n = 0 THEN {""}
  ELSE { c \o piece : c \in CommandsOf(n - 1), piece \in Pieces }

Commands == UNION { CommandsOf(n) : n \in 0..MaxPieces }

BashInit ==
  /\ AgentIdle
  /\ TruncateIdle
  /\ CompactionIdle
  /\ RegistryIdle
  /\ StreamIdle
  /\ LaterIdle
  /\ restricted \in BOOLEAN
  /\ bash_command \in Commands
  /\ bashPc = "called"
  /\ subprocess_started = FALSE
  /\ bashOutput = <<>>

BashFrame ==
  UNCHANGED << AgentVars, tr_content, tr_max_chars, truncated, sessionHistory,
               compactLog, invocation, dispatched, streamVars, restricted,
               bash_command, laterVars >>

BashReturn(out) ==
  /\ bashOutput' = << out >>
  /\ bashPc' = "returned"

\* if not command
BashNoCommand ==
  /\ bashPc = "called"
  /\ bash_command = ""
  /\ BashReturn(Returned("No command provided", FALSE))
  /\ UNCHANGED subprocess_started
  /\ BashFrame

\* restricted and is_command_allowed(command) refuses
BashBlocked ==
  /\ bashPc = "called"
  /\ bash_command # ""
  /\ restricted
  /\ ~is_command_allowed(bash_command)[1]
  /\ BashReturn(Returned("Command blocked: " \o is_command_allowed(bash_command)[2],
                         FALSE))
  /\ UNCHANGED subprocess_started
  /\ BashFrame

BashPassed ==
  /\ bashPc = "called"
  /\ bash_command # ""
  /\ restricted => is_command_allowed(bash_command)[1]

\* create_subprocess_shell returns the process
BashStart ==
  /\ BashPassed
  /\ subprocess_started' = TRUE
  /\ bashPc' = "communicating"
  /\ UNCHANGED bashOutput
  /\ BashFrame

\* create_subprocess_shell raises: FileNotFoundError for the working
\* directory, or another Exception
BashSpawnFails ==
  /\ BashPassed
  /\ \E text \in {"Working directory not found: .", "Error executing command: e"} :
       BashReturn(Returned(text, FALSE))
  /\ UNCHANGED subprocess_started
  /\ BashFrame

\* the process exits within the timeout
BashExit ==
  /\ bashPc = "communicating"
  /\ \E exit_code \in {0, 1} : BashReturn(Returned("(no output)", exit_code = 0))
  /\ UNCHANGED subprocess_started
  /\ BashFrame

\* asyncio.TimeoutError: the process is killed
BashTimeout ==
  /\ bashPc = "communicating"
  /\ BashReturn(Returned("Command timed out after 120 seconds", FALSE))
  /\ UNCHANGED subprocess_started
  /\ BashFrame

\* asyncio.CancelledError: the process is killed and the error raised again
BashCancelled ==
  /\ bashPc = "communicating"
  /\ BashReturn(Raised("CancelledError"))
  /\ UNCHANGED subprocess_started
  /\ BashFrame

BashNext ==
  \/ BashNoCommand
  \/ BashBlocked
  \/ BashStart
  \/ BashSpawnFails
  \/ BashExit
  \/ BashTimeout
  \/ BashCancelled

BashSpec == BashInit /\ [][BashNext]_vars

\* --------------------------------------------- the database handler
\* the keywords of MUTATION_PATTERNS, each matched as \bKEYWORD\b
MUTATION_PATTERNS ==
  << "INSERT", "UPDATE", "DELETE", "DROP", "CREATE", "ALTER", "TRUNCATE",
     "MERGE", "GRANT", "REVOKE", "EXEC", "EXECUTE", "CALL" >>

LowerCase == "abcdefghijklmnopqrstuvwxyz"
UpperCase == "ABCDEFGHIJKLMNOPQRSTUVWXYZ"

\* \w, on the characters of the statements explored
IsWordChar(ch) ==
  ch = "_" \/ \E i \in 1..Len(LowerCase) :
                ch = SubSeq(LowerCase, i, i) \/ ch = SubSeq(UpperCase, i, i)

\* the text with each letter of `from` replaced by the one of `to`
RECURSIVE ChangeCase(_, _, _)
ChangeCase(str, from, to) ==
  IF str = "" THEN ""
  ELSE LET ch == SubSeq(str, 1, 1)
           changed == IF \E i \in 1..Len(from) : SubSeq(from, i, i) = ch
                      THEN LET i == CHOOSE i \in 1..Len(from) :
                                      SubSeq(from, i, i) = ch
                           IN SubSeq(to, i, i)
                      ELSE ch
       IN changed \o ChangeCase(SubSeq(str, 2, Len(str)), from, to)

\* re.IGNORECASE: the text with its letters in upper case
upper(str) == ChangeCase(str, LowerCase, UpperCase)

\* str.lower()
lower(str) == ChangeCase(str, UpperCase, LowerCase)

\* re.sub(r"--.*$", "", sql, flags=re.MULTILINE): from each -- up to the end
\* of its line
RECURSIVE StripLineComments(_, _)
StripLineComments(str, inComment) ==
  IF str = "" THEN ""
  ELSE IF SubSeq(str, 1, 1) = "\n"
  THEN "\n" \o StripLineComments(SubSeq(str, 2, Len(str)), FALSE)
  ELSE IF inComment THEN StripLineComments(SubSeq(str, 2, Len(str)), TRUE)
  ELSE IF Len(str) >= 2 /\ SubSeq(str, 1, 2) = "--"
  THEN StripLineComments(SubSeq(str, 3, Len(str)), TRUE)
  ELSE SubSeq(str, 1, 1) \o StripLineComments(SubSeq(str, 2, Len(str)), FALSE)

\* re.sub(r"/\*.*?\*/", "", cleaned, flags=re.DOTALL): from each /* through
\* the nearest */ after it; a /* without one stays
RECURSIVE StripBlockComments(_)
StripBlockComments(str) ==
  IF str = "" THEN ""
  ELSE IF /\ Len(str) >= 4 /\ SubSeq(str, 1, 2) = "/*"
          /\ \E i \in 3..(Len(str) - 1) : SubSeq(str, i, i + 1) = "*/"
  THEN LET close == CHOOSE i \in 3..(Len(str) - 1) :
                      /\ SubSeq(str, i, i + 1) = "*/"
                      /\ \A j \in 3..(i - 1) : SubSeq(str, j, j + 1) # "*/"
       IN StripBlockComments(SubSeq(str, close + 2, Len(str)))
  ELSE SubSeq(str, 1, 1) \o StripBlockComments(SubSeq(str, 2, Len(str)))

\* " ".join(parts)
RECURSIVE JoinWords(_)
JoinWords(parts) ==
  IF parts = <<>> THEN ""
  ELSE IF Len(parts) = 1 THEN parts[1]
  ELSE parts[1] \o " " \o JoinWords(Tail(parts))

\* the statement without comments, its whitespace normalised
cleaned_sql(statement) ==
  JoinWords(split(StripBlockComments(StripLineComments(statement, FALSE))))

\* MUTATION_RE matches `Len(keyword)` characters at position i of the text
\* whose upper case is `up`
MatchesAt(up, i, keyword) ==
  LET last == i + Len(keyword) - 1 IN
  /\ last <= Len(up)
  /\ SubSeq(up, i, last) = keyword
  /\ i = 1 \/ ~IsWordChar(SubSeq(up, i - 1, i - 1))
  /\ last = Len(up) \/ ~IsWordChar(SubSeq(up, last + 1, last + 1))

MatchPositions(cleaned) ==
  LET up == upper(cleaned) IN
  { i \in 1..Len(cleaned) :
      \E k \in 1..Len(MUTATION_PATTERNS) : MatchesAt(up, i, MUTATION_PATTERNS[k]) }

\* MUTATION_RE.search(cleaned).group(): the leftmost match
FirstMatch(cleaned) ==
  LET i == CHOOSE i \in MatchPositions(cleaned) :
             \A j \in MatchPositions(cleaned) : i <= j
      k == CHOOSE k \in 1..Len(MUTATION_PATTERNS) :
             MatchesAt(upper(cleaned), i, MUTATION_PATTERNS[k])
  IN SubSeq(cleaned, i, i + Len(MUTATION_PATTERNS[k]) - 1)

\* is_read_only_sql with the statement scanned as it was given
is_read_only_sql_NoStrip(statement) ==
  IF MatchPositions(statement) # {}
  THEN << FALSE, "Query contains mutation keyword: " \o FirstMatch(statement) >>
  ELSE << TRUE, "" >>

\* (is_safe, reason)
is_read_only_sql(statement) ==
  IF MatchPositions(cleaned_sql(statement)) # {}
  THEN << FALSE, "Query contains mutation keyword: "
                   \o FirstMatch(cleaned_sql(statement)) >>
  ELSE << TRUE, "" >>

\* the pieces the statements are put together from
SqlPieces == {"DELETE", "dRoP", "x", " ", "\n", "--", "/*", "*/"}

RECURSIVE StatementsOf(_)
StatementsOf(n) ==
  IF n = 0 THEN {""}
  ELSE { st \o piece : st \in StatementsOf(n - 1), piece \in SqlPieces }

Statements == UNION { StatementsOf(n) : n \in 0..MaxSqlPieces }

DatabaseModes == {"readonly", "mutations"}

\* a handler is about to be built, by the factory from a profile or by a
\* direct SqliteHandler(db_path) call, and then asked for a query
DatabaseInit ==
  /\ EarlierIdle
  /\ LaterIdleBut("database")
  /\ database \in DatabaseModes
  /\ fromFactory \in BOOLEAN
  /\ sql \in Statements
  /\ dbPc = "build"
  /\ executed = <<>>
  /\ dbOutput = <<>>

DatabaseFrame ==
  /\ EarlierFrame
  /\ UNCHANGED << database, fromFactory, sql, writeVars, editVars, factoryVars,
               processorVars, evalVars,
               runVars, mysqlVars, signalVars, conversationVars >>

\* _register_sqlite: SqliteHandler(readonly=..., requires_approval=...) hands
\* both keywords to DatabaseHandler.__init__(self, row_limit), which raises
\* TypeError; create_registry does not catch it
FactoryBuildRaises ==
  /\ dbPc = "build"
  /\ fromFactory
  /\ dbOutput' = << Raised("TypeError") >>
  /\ dbPc' = "returned"
  /\ UNCHANGED executed
  /\ DatabaseFrame

\* SqliteHandler(db_path)
DirectBuild ==
  /\ dbPc = "build"
  /\ ~fromFactory
  /\ dbPc' = "called"
  /\ UNCHANGED << executed, dbOutput >>
  /\ DatabaseFrame

\* handle(operation = "query") up to the statement being refused
QueryRefused ==
  /\ dbPc = "called"
  /\ \/ /\ sql = ""
        /\ dbOutput' = << Returned("No SQL query provided", FALSE) >>
     \/ /\ sql # ""
        /\ ~is_read_only_sql(sql)[1]
        /\ dbOutput' = << Returned("Query blocked: " \o is_read_only_sql(sql)[2],
                                   FALSE) >>
  /\ dbPc' = "returned"
  /\ UNCHANGED executed
  /\ DatabaseFrame

\* the statement goes to _execute_query, which returns the rows or raises;
\* handle() turns the exception into a failed ToolOutput
QueryExecuted ==
  /\ dbPc = "called"
  /\ sql # ""
  /\ is_read_only_sql(sql)[1]
  /\ executed' = Append(executed, sql)
  /\ \E out \in { Returned("rows", TRUE),
                  Returned("Query executed (no result set)", TRUE),
                  Returned("Sqlite error: e", FALSE) } :
       dbOutput' = << out >>
  /\ dbPc' = "returned"
  /\ DatabaseFrame

DatabaseNext == FactoryBuildRaises \/ DirectBuild \/ QueryRefused \/ QueryExecuted

DatabaseSpec == DatabaseInit /\ [][DatabaseNext]_vars

\* ------------------------------------------------- the write handler
SENSITIVE_PATTERNS ==
  << ".bashrc", ".zshrc", ".profile", ".bash_profile", ".ssh/", ".gnupg/",
     ".aws/", ".config/", "/etc/", "/usr/", "/bin/", "/sbin/" >>

\* a path without a file
Absent == "<absent>"

\* the paths a file may be at; /w/d may also be a directory
FilePaths == {"/w/a", "/w/d", "/w/d/b", "/ETC/x"}

\* /w/link is a symbolic link to /w/a
PathArguments == FilePaths \cup {"", "/w/link"}

\* Path(path_str).expanduser().resolve()
Resolve(path_str) == IF path_str = "/w/link" THEN "/w/a" ELSE path_str

\* path.parent; / , /w and /ETC are directories throughout
Parent(path) == IF path = "/w/d/b" THEN "/w/d" ELSE IF path = "/ETC/x" THEN "/ETC" ELSE "/w"

\* path.exists()
Exists(fs, ds, path) == fs[path] # Absent \/ path \in ds

\* the checks that come before the try block: the text of the failed
\* ToolOutput, or None; here without the path.exists() check
write_refusal_NoExists(only, args, fs, ds) ==
  LET path == Resolve(args.path) IN
  IF args.path = "" THEN "No path provided"
  ELSE IF args.content = "" THEN "No content provided"
  ELSE IF only /\ \E i \in 1..Len(SENSITIVE_PATTERNS) :
                    Contains(lower(path), SENSITIVE_PATTERNS[i])
  THEN "Cannot write to sensitive location: " \o path
  ELSE None

write_refusal(only, args, fs, ds) ==
  LET path == Resolve(args.path) IN
  IF args.path = "" THEN "No path provided"
  ELSE IF args.content = "" THEN "No content provided"
  ELSE IF only /\ \E i \in 1..Len(SENSITIVE_PATTERNS) :
                    Contains(lower(path), SENSITIVE_PATTERNS[i])
  THEN "Cannot write to sensitive location: " \o path
  ELSE IF only /\ Exists(fs, ds, path)
  THEN "File already exists: " \o path
         \o ". Use a different path or delete the existing file first."
  ELSE None

\* a filesystem: /w/d is a file, a directory or absent, and /w/d/b can be a
\* file only in the directory /w/d
WriteInit ==
  /\ EarlierIdle
  /\ LaterIdleBut("write")
  /\ create_only \in BOOLEAN
  /\ write_args \in [path : PathArguments, content : {"", "new"}]
  /\ files \in [FilePaths -> {Absent, "old"}]
  /\ dirs \in SUBSET {"/w/d"}
  /\ "/w/d" \in dirs => files["/w/d"] = Absent
  /\ files["/w/d/b"] # Absent => "/w/d" \in dirs
  /\ writePc = "called"
  /\ writeOutput = <<>>

WriteFrame ==
  /\ EarlierFrame
  /\ UNCHANGED << dbVars, create_only, write_args, editVars, factoryVars,
               processorVars, evalVars,
               runVars, mysqlVars, signalVars, conversationVars >>

\* one of the checks before the try block fails
WriteRefused ==
  /\ writePc = "called"
  /\ write_refusal(create_only, write_args, files, dirs) # None
  /\ writeOutput' = << Returned(write_refusal(create_only, write_args, files, dirs),
                                FALSE) >>
  /\ writePc' = "returned"
  /\ UNCHANGED << files, dirs >>
  /\ WriteFrame

\* the try block: path.parent.mkdir(parents=True, exist_ok=True), then
\* path.write_text(content); mkdir raises when the parent is a file and
\* write_text when the path is a directory or the write is not permitted
WriteTried ==
  /\ writePc = "called"
  /\ write_refusal(create_only, write_args, files, dirs) = None
  /\ LET path == Resolve(write_args.path)
         existed == Exists(files, dirs, path)
         action == IF create_only THEN "Created"
                   ELSE IF existed THEN "Overwrote" ELSE "Created"
     IN IF Parent(path) = "/w/d" /\ files["/w/d"] # Absent
        THEN /\ writeOutput' = << Returned("Error writing file: e", FALSE) >>
             /\ UNCHANGED << files, dirs >>
        ELSE /\ dirs' = IF Parent(path) = "/w/d" THEN dirs \cup {"/w/d"} ELSE dirs
             /\ \/ /\ path \notin dirs
                   /\ files' = [files EXCEPT ![path] = write_args.content]
                   /\ writeOutput' = << Returned(action \o " " \o path, TRUE) >>
                \/ /\ UNCHANGED files
                   /\ \E text \in {"Permission denied: " \o path,
                                   "Error writing file: e"} :
                        writeOutput' = << Returned(text, FALSE) >>
  /\ writePc' = "returned"
  /\ WriteFrame

WriteNext == WriteRefused \/ WriteTried

WriteSpec == WriteInit /\ [][WriteNext]_vars

\* -------------------------------------------------- the edit handler
\* path.exists() and not path.is_file()
Directory == "<directory>"

\* content.count(old_string): the occurrences that do not overlap, from the
\* left
RECURSIVE count(_, _)
count(content, old_string) ==
  IF Len(content) < Len(old_string) THEN 0
  ELSE IF SubSeq(content, 1, Len(old_string)) = old_string
  THEN 1 + count(SubSeq(content, Len(old_string) + 1, Len(content)), old_string)
  ELSE count(SubSeq(content, 2, Len(content)), old_string)

\* content.replace(matched, replacement, 1); an empty `matched` is found at
\* the start
replace_first(content, matched, replacement) ==
  LET before == IF matched = "" THEN "" ELSE BeforeFirst(content, matched) IN
  before \o replacement
    \o SubSeq(content, Len(before) + Len(matched) + 1, Len(content))

\* s.split("\n")
RECURSIVE SplitLines(_)
SplitLines(str) ==
  IF Contains(str, "\n")
  THEN LET line == BeforeFirst(str, "\n") IN
       << line >> \o SplitLines(SubSeq(str, Len(line) + 2, Len(str)))
  ELSE << str >>

\* "\n".join(lines)
RECURSIVE JoinLines(_)
JoinLines(lines) ==
  IF lines = <<>> THEN ""
  ELSE IF Len(lines) = 1 THEN lines[1]
  ELSE lines[1] \o "\n" \o JoinLines(Tail(lines))

_normalize_whitespace(str) ==
  LET lines == SplitLines(str) IN
  JoinLines([i \in 1..Len(lines) |-> rstrip(lines[i])])

_normalize_indentation(str) ==
  LET lines == SplitLines(str) IN
  JoinLines([i \in 1..Len(lines) |-> lstrip(lines[i])])

\* the window of len(old_lines) lines that starts at line i
Window(content, old_string, i) ==
  SubSeq(SplitLines(content), i, i + Len(SplitLines(old_string)) - 1)

\* the sliding window: the lines at which a window equals old_string once
\* both are normalised
Matches(content, old_string, Normalize(_)) ==
  { i \in 1..(Len(SplitLines(content)) - Len(SplitLines(old_string)) + 1) :
      Normalize(JoinLines(Window(content, old_string, i))) = Normalize(old_string) }

Indent(line) == SubSeq(line, 1, Len(line) - Len(lstrip(line)))

\* the indentation of the first matched line put before each line of
\* new_string, the relative indentation of new_string kept
_reindent(new_string, matched) ==
  LET base_indent == Indent(SplitLines(matched)[1])
      new_lines == SplitLines(new_string)
      NonEmpty == { i \in 1..Len(new_lines) : strip(new_lines[i]) # "" }
      min_new_indent ==
        IF NonEmpty = {} THEN 0
        ELSE LET i == CHOOSE i \in NonEmpty :
                        \A j \in NonEmpty :
                          Len(Indent(new_lines[i])) <= Len(Indent(new_lines[j]))
             IN Len(Indent(new_lines[i]))
  IN JoinLines([i \in 1..Len(new_lines) |->
       IF i \notin NonEmpty THEN new_lines[i]
       ELSE base_indent
              \o Repeat(" ", Len(Indent(new_lines[i])) - min_new_indent)
              \o lstrip(new_lines[i])])

\* the new content, or None, and the message
EditResult(new_content, message) == [new_content |-> new_content, message |-> message]

\* strategies 2 and 3, for the lines `matches` and the replacement `by`
apply_window(content, old_string, by(_), matches, name) ==
  LET matched == JoinLines(Window(content, old_string, CHOOSE i \in matches : TRUE)) IN
  IF Cardinality(matches) = 1
  THEN EditResult(<< replace_first(content, matched, by(matched)) >>, name \o " match")
  ELSE EditResult(None, "Found " \o ToString(Cardinality(matches)) \o " "
                          \o name \o " matches (must be unique)")

_apply_edit(content, old_string, new_string) ==
  LET Same(matched) == new_string
      Reindented(matched) == _reindent(new_string, matched)
      ws == Matches(content, old_string, _normalize_whitespace)
      ind == Matches(content, old_string, _normalize_indentation)
  IN IF count(content, old_string) = 1
     THEN EditResult(<< replace_first(content, old_string, new_string) >>, "exact match")
     ELSE IF count(content, old_string) > 1
     THEN EditResult(None, "old_string appears "
                             \o ToString(count(content, old_string))
                             \o " times (must be unique). Add more context.")
     ELSE IF ws # {}
     THEN apply_window(content, old_string, Same, ws, "whitespace-normalized")
     ELSE IF ind # {}
     THEN apply_window(content, old_string, Reindented, ind, "indentation-flexible")
     ELSE EditResult(None,
            "old_string not found in file. Check for typos or add more context.")

EditChars == {"a", " ", "\n"}

RECURSIVE TextsOf(_)
TextsOf(n) ==
  IF n = 0 THEN {""} ELSE { str \o ch : str \in TextsOf(n - 1), ch \in EditChars }

Texts(n) == UNION { TextsOf(k) : k \in 0..n }

EditInit ==
  /\ EarlierIdle
  /\ LaterIdleBut("edit")
  /\ \/ /\ edit_args \in [path : {"/w/f"}, old_string : Texts(MaxOld),
                          new_string : {"b", " b"}]
        /\ file_content \in Texts(MaxContent)
     \/ /\ edit_args \in [path : {"", "/w/f"}, old_string : {"a"},
                          new_string : {"b"}]
        /\ file_content \in {Absent, Directory, "a"}
  /\ editPc = "called"
  /\ editOutput = <<>>

EditFrame ==
  /\ EarlierFrame
  /\ UNCHANGED << dbVars, writeVars, edit_args, factoryVars, processorVars,
               evalVars, runVars, mysqlVars, signalVars, conversationVars >>

EditAnswer(text, success) ==
  /\ editOutput' = << Returned(text, success) >>
  /\ editPc' = "returned"
  /\ EditFrame

\* the checks before the file is read; read_text may raise
EditRefused ==
  /\ editPc = "called"
  /\ \/ edit_args.path = "" /\ EditAnswer("No path provided", FALSE)
     \/ /\ edit_args.path # "" /\ edit_args.old_string = ""
        /\ EditAnswer("No old_string provided", FALSE)
     \/ /\ edit_args.path # "" /\ edit_args.old_string # ""
        /\ \/ file_content = Absent /\ EditAnswer("File not found: /w/f", FALSE)
           \/ file_content = Directory /\ EditAnswer("Not a file: /w/f", FALSE)
           \/ /\ file_content \notin {Absent, Directory}
              /\ EditAnswer("Error reading file: e", FALSE)
  /\ UNCHANGED file_content

Editable ==
  /\ editPc = "called"
  /\ edit_args.path # "" /\ edit_args.old_string # ""
  /\ file_content \notin {Absent, Directory}

\* _apply_edit and its outcome: the error message, or write_text; a
\* write_text that raises has left the file as it was or truncated it
EditApplied ==
  /\ Editable
  /\ LET result == _apply_edit(file_content, edit_args.old_string,
                               edit_args.new_string)
     IN IF result.new_content = None
        THEN EditAnswer(result.message, FALSE) /\ UNCHANGED file_content
        ELSE \/ /\ file_content' = result.new_content[1]
                /\ EditAnswer("Edited /w/f: " \o result.message, TRUE)
             \/ /\ file_content' \in {file_content, ""}
                /\ EditAnswer("Error writing file: e", FALSE)

EditNext == EditRefused \/ EditApplied

EditSpec == EditInit /\ [][EditNext]_vars

\* --------------------------------------------------- the tool factory
DEFAULT_DANGEROUS_TOOLS ==
  {"bash", "write", "edit", "oracle", "mysql", "sqlite", "vertica", "postgres"}

\* CapabilityProfile.requires_tool_approval
requires_tool_approval(p, tool_name) ==
  IF p.approval = "none" THEN FALSE
  ELSE IF p.approval = "all" THEN TRUE
  ELSE IF p.approval = "dangerous" THEN tool_name \in DEFAULT_DANGEROUS_TOOLS
  ELSE tool_name \in p.approval_required_tools

\* how a handler was constructed: its requires_approval, and `limited` for
\* restricted (bash) and create_only (write)
Handler(approval, limited) ==
  [requires_approval |-> approval, limited |-> limited]

\* the handlers a name is registered with, as a function on `names`
Registered(names, handler(_)) == [name \in names |-> handler(name)]

_register_core_tools ==
  LET core(name) == Handler(FALSE, FALSE) IN
  Registered({"read", "glob", "grep", "list", "read_excel"}, core)

_register_bash_tool(p) ==
  LET bash(name) == Handler(requires_tool_approval(p, "bash"), p.shell = "restricted") IN
  Registered({"bash"}, bash)

_register_write_tools(p) ==
  LET tool(name) == Handler(requires_tool_approval(p, name),
                            name = "write" /\ p.file_write = "create-only")
  IN IF p.file_write = "off" THEN << >>
     ELSE IF p.file_write = "full" THEN Registered({"write", "edit"}, tool)
     ELSE Registered({"write"}, tool)

\* the profiles a factory is built with
Profiles ==
  [shell : {"restricted", "unrestricted"},
   file_write : {"off", "create-only", "full"},
   approval : {"all", "dangerous", "granular", "none"},
   approval_required_tools : SUBSET {"bash", "write", "edit"}]

FactoryInit ==
  /\ EarlierIdle
  /\ LaterIdleBut("factory")
  /\ profile \in Profiles
  /\ registered = <<>>

\* create_registry with an env that names no database
create_registry ==
  /\ registered = <<>>
  /\ registered' = << _register_core_tools @@ _register_bash_tool(profile)
                        @@ _register_write_tools(profile) >>
  /\ EarlierFrame
  /\ UNCHANGED << dbVars, writeVars, editVars, profile, processorVars, evalVars,
                  runVars, mysqlVars, signalVars, conversationVars >>

FactoryNext == create_registry

FactorySpec == FactoryInit /\ [][FactoryNext]_vars

\* ------------------------------------- TelemetryProcessor.wrap_turn
\* a loop that a cancelled event does not end
TERMINAL_TYPES_NoCancelled == {"turn_complete", "error"}

\* the event types at which wrap_turn leaves its loop
TERMINAL_TYPES == {"turn_complete", "cancelled", "error"}

\* a start_turn that leaves current_turn_index as it is
start_turn_SameIndex(index) == index

\* TelemetryContext.start_turn: the index of the turn that starts
start_turn(index) == index + 1

\* TurnContext(turn_index=...), as far as the exporter calls are told apart
TurnContext(index) == [turn_index |-> index]

\* ToolExecutionContext(tool_name=...) and what end(success, error) sets
ToolExecutionContext(tool_name) ==
  [tool_name |-> tool_name, success |-> TRUE, error |-> None]

\* a call of the exporter; `at` (history) is the position in the wrapped
\* iterator of the event that was being processed
ExporterCall(method, ctx, at) == [method |-> method, ctx |-> ctx, at |-> at]

\* _process_event(event): _pending_tool and the exporter's
\* record_tool_execution calls after it (the token totals of turn_complete
\* and the context's tool call counter are not followed)
_process_event(e, tool, calls, at) ==
  IF e.type = "tool_start"
  THEN [tool |-> << ToolExecutionContext(e.tool_name) >>, calls |-> calls]
  ELSE IF e.type = "tool_end" /\ tool # <<>>
  THEN [tool |-> <<>>,
        calls |-> Append(calls, ExporterCall("record_tool_execution",
                                             [tool[1] EXCEPT !.success = TRUE], at))]
  ELSE IF e.type = "tool_blocked" /\ tool # <<>>
  THEN [tool |-> <<>>,
        calls |-> Append(calls, ExporterCall("record_tool_execution",
                                             [tool[1] EXCEPT !.success = FALSE,
                                                             !.error = "Blocked by user"],
                                             at))]
  ELSE IF e.type = "error" /\ tool # <<>>
  THEN [tool |-> <<>>,
        calls |-> Append(calls, ExporterCall("record_tool_execution",
                                             [tool[1] EXCEPT !.success = FALSE,
                                                             !.error = e.content],
                                             at))]
  ELSE [tool |-> tool, calls |-> calls]

\* the events an iterator handed to wrap_turn may yield
StreamEvents ==
  { Plain("text"), Event("tool_start", "read", None, 0, 0),
    Event("tool_end", "read", "output", 0, 0),
    Event("tool_blocked", "read", None, 0, 0),
    Plain("turn_complete"), Plain("cancelled"), Plain("error") }

RECURSIVE StreamsOfLen(_)
StreamsOfLen(n) ==
  IF n = 0 THEN { <<>> }
  ELSE { Append(str, e) : str \in StreamsOfLen(n - 1), e \in StreamEvents }

Streams == UNION { StreamsOfLen(n) : n \in 0..MaxStream }

\* wrap_turn up to `async for`: lines 101-112
Enter ==
  /\ wrapPc \in {"idle", "finished"}
  /\ pc \in {"idle", "returned", "raised"}
  /\ total_turns = turns
  /\ turns < MaxTurns
  /\ current_turn_index' = start_turn(current_turn_index)
  /\ total_turns' = total_turns + 1
  /\ current_turn' = << TurnContext(current_turn_index') >>
  /\ exporter_turns' = Append(exporter_turns,
                              ExporterCall("start_turn", current_turn'[1], 0))
  /\ exporter_tools' = <<>>
  /\ passed' = <<>>
  /\ wrapPc' = "iterating"
  /\ UNCHANGED pending_tool

ProcessorRest ==
  UNCHANGED << tr_content, tr_max_chars, truncated, sessionHistory, compactLog,
               invocation, dispatched, streamVars, bashVars, dbVars, writeVars,
               editVars, factoryVars, evalVars,
               runVars, mysqlVars, signalVars, conversationVars >>

\* the wrapped iterator stays as it is
WrapFrame ==
  /\ UNCHANGED AgentVars
  /\ ProcessorRest

\* wrap_turn(events) with an iterator that, iterated to its end, yields
\* `stream`: events holds the whole of it
WrapStream ==
  /\ Enter
  /\ \E stream \in Streams : events' = stream
  /\ pc' = "returned"
  /\ turns' = turns + 1
  /\ UNCHANGED << history, cancel_requested, config, tokens, compacts,
                  tokensAtStart, text_content, pending, tool_results, cur,
                  streamDone, round, toolCalls, rejectedAt, dispatchLog,
                  lateModelCall, cancelSeen, lastRet, held >>
  /\ ProcessorRest

\* wrap_turn(agent.run_turn(user_input)): run_turn starts when wrap_turn
\* asks for its first event
WrapRunTurn ==
  /\ Enter
  /\ WrapFrame

\* the wrapped iterator has started and has an event wrap_turn has not taken
Waiting == turns = total_turns /\ Len(passed) < Len(events)

\* the wrapped iterator runs: wrap_turn is waiting for its next event
Resumed ==
  /\ wrapPc = "iterating"
  /\ turns < total_turns \/ Len(passed) = Len(events)

\* one iteration of `async for`: _process_event, yield, the test of the type
Forward ==
  /\ wrapPc = "iterating"
  /\ Waiting
  /\ LET at == Len(passed) + 1
         event == events[at]
         after == _process_event(event, pending_tool, exporter_tools, at)
     IN /\ pending_tool' = after.tool
        /\ exporter_tools' = after.calls
        /\ passed' = Append(passed, event)
        /\ wrapPc' = IF event.type \in TERMINAL_TYPES THEN "breaking"
                     ELSE "iterating"
  /\ UNCHANGED << current_turn_index, total_turns, current_turn, exporter_turns >>
  /\ WrapFrame

\* the finally block: lines 126-134
Finally ==
  /\ IF current_turn # <<>>
     THEN exporter_turns' = Append(exporter_turns,
                                   ExporterCall("end_turn", current_turn[1],
                                                Len(passed)))
     ELSE UNCHANGED exporter_turns
  /\ current_turn' = <<>>
  /\ wrapPc' = "finished"
  /\ UNCHANGED << current_turn_index, total_turns, pending_tool, exporter_tools,
                  passed >>
  /\ WrapFrame

\* break, then finally
WrapBreak ==
  /\ wrapPc = "breaking"
  /\ Finally

\* the wrapped iterator is exhausted, or raises: finally
WrapExhausted ==
  /\ wrapPc = "iterating"
  /\ turns = total_turns /\ Len(passed) = Len(events)
  /\ pc \in {"returned", "raised"}
  /\ Finally

\* a TelemetryProcessor wrapping iterators of any events
WrapInit ==
  /\ AgentIdle
  /\ TruncateIdle /\ CompactionIdle /\ RegistryIdle /\ StreamIdle /\ BashIdle
  /\ LaterIdle

WrapNext ==
  \/ WrapStream
  \/ Forward
  \/ WrapBreak
  \/ WrapExhausted

WrapSpec == WrapInit /\ [][WrapNext]_vars

\* a TelemetryProcessor wrapping the turns of an Agent with an approval
\* callback and no cancel_check, a model that returns JSON objects as
\* arguments
TelemetryCalls ==
  { [id |-> "c1", name |-> "read", arguments |-> "object"],
    [id |-> "c2", name |-> "bash", arguments |-> "object"] }

TelemetryInit ==
  /\ AgentStart
  /\ hasCallback
  /\ modelCalls = TelemetryCalls /\ handlerOutputs = ShortOutputs
  /\ auto_compact = FALSE /\ usages = NoUsage
  /\ extAnswers = NoCancelCheck
  /\ OthersIdle

TelemetryNext ==
  \/ WrapRunTurn
  \/ Forward
  \/ WrapBreak
  \/ WrapExhausted
  \/ Resumed /\ RunTurn
  \/ Resumed /\ StreamText
  \/ Resumed /\ StreamToolCall
  \/ Resumed /\ StreamDone
  \/ Resumed /\ StreamError
  \/ Resumed /\ StreamEnd
  \/ Resumed /\ ApprovalGranted
  \/ Resumed /\ ApprovalDenied
  \/ Resumed /\ ApprovalRaises
  \/ Resumed /\ DispatchHandled
  \/ Resumed /\ RequestCancel

TelemetrySpec == TelemetryInit /\ [][TelemetryNext]_vars

\* ------------------------- EvalRunner._run_dbbench_task_sqlite / _mysql
\* the turn loop of both methods is the same code
\* consecutive_timeouts after a turn that kept a timed-out turn's count
after_turn_completed_NoReset(timeouts) == timeouts

\* consecutive_timeouts after a turn that ended within the timeout: line 222
after_turn_completed(timeouts) == 0

\* the count at which the TimeoutError branch raises EvalAbortedError
ABORT_AFTER == 3

\* what one turn may do: end within the timeout, run into the timeout, or
\* raise another exception (one that names the context, or not)
TurnOutcomes == {"completed", "timeout", "context error", "error"}

\* after the loop: lines 243-254, then the TaskResult is built and returned
AfterLoop(s) ==
  [s EXCEPT !.pc = "returned",
            !.status = IF s.turns >= s.max_turns /\ ~s.is_submitted
                       THEN "task limit reached" ELSE @,
            !.evaluated = IF s.submitted_answer # None
                          THEN Append(@, s.submitted_answer) ELSE @]

\* SubmitAnswerHandler.handle for each of `answers` in turn, with
\* on_answer = capture_answer
RECURSIVE Submit(_, _)
Submit(s, answers) ==
  IF answers = <<>> THEN s
  ELSE Submit(IF answers[1] = "" THEN s
              ELSE [s EXCEPT !.is_submitted = TRUE,
                             !.submitted_answer = answers[1],
                             !.submissions = Append(@, answers[1])],
              Tail(answers))

\* the answers the model may hand to the submit tool during one turn
SubmitCalls ==
  { <<>>, << "" >>, << "A" >>, << "A", "B" >>, << "B", "" >> }

\* a loop that looks at is_submitted only after a turn that completed
Iteration_NoCheck(s) ==
  IF s.turns >= s.max_turns
  THEN AfterLoop(s)
  ELSE [s EXCEPT !.turns = @ + 1, !.pc = "in_turn"]

\* the top of `for turn in range(max_turns)` up to the turn's first await
Iteration(s) ==
  IF s.turns >= s.max_turns
  THEN AfterLoop(s)
  ELSE LET s1 == [s EXCEPT !.turns = @ + 1] IN
       IF s1.is_submitted THEN AfterLoop(s1) ELSE [s1 EXCEPT !.pc = "in_turn"]

EvalNow ==
  [ pc |-> evalPc, turns |-> eval_turns, max_turns |-> max_turns,
    is_submitted |-> is_submitted, status |-> task_status,
    consecutive_timeouts |-> consecutive_timeouts,
    submitted_answer |-> submitted_answer, evaluated |-> evaluated,
    submissions |-> submissions ]

EvalBecomes(s) ==
  /\ evalPc' = s.pc
  /\ eval_turns' = s.turns
  /\ is_submitted' = s.is_submitted
  /\ task_status' = s.status
  /\ consecutive_timeouts' = s.consecutive_timeouts
  /\ submitted_answer' = s.submitted_answer
  /\ evaluated' = s.evaluated
  /\ submissions' = s.submissions
  /\ UNCHANGED max_turns

EvalFrame ==
  /\ EarlierFrame
  /\ UNCHANGED << dbVars, writeVars, editVars, factoryVars, processorVars,
                  runVars, mysqlVars, signalVars, conversationVars >>

\* _run_dbbench_task_*(task) up to the first turn
RunTask ==
  /\ evalPc = "idle"
  /\ EvalBecomes(Iteration([EvalNow EXCEPT !.status = "completed"]))
  /\ UNCHANGED outcomes
  /\ EvalFrame

\* the turn ends within the timeout, the answer submitted during it or not:
\* lines 221-226
TurnCompleted ==
  /\ evalPc = "in_turn"
  /\ \E answers \in SubmitCalls :
       LET s == [Submit(EvalNow, answers) EXCEPT
                   !.consecutive_timeouts = after_turn_completed(@)]
       IN EvalBecomes(IF s.is_submitted THEN AfterLoop(s) ELSE Iteration(s))
  /\ outcomes' = Append(outcomes, "completed")
  /\ EvalFrame

\* asyncio.timeout expires during the turn: lines 228-235
TurnTimedOut ==
  /\ evalPc = "in_turn"
  /\ \E answers \in SubmitCalls :
       LET s == [Submit(EvalNow, answers) EXCEPT !.consecutive_timeouts = @ + 1]
       IN EvalBecomes(IF s.consecutive_timeouts >= ABORT_AFTER
                      THEN [s EXCEPT !.pc = "EvalAbortedError"]
                      ELSE Iteration(s))
  /\ outcomes' = Append(outcomes, "timeout")
  /\ EvalFrame

\* the turn raises another exception: lines 236-241
TurnRaised ==
  /\ evalPc = "in_turn"
  /\ \E outcome \in {"context error", "error"}, answers \in SubmitCalls :
       /\ EvalBecomes(AfterLoop([Submit(EvalNow, answers) EXCEPT
                                   !.status = IF outcome = "context error"
                                              THEN "agent context limit"
                                              ELSE "task error"]))
       /\ outcomes' = Append(outcomes, outcome)
  /\ EvalFrame

EvalInit ==
  /\ EarlierIdle
  /\ LaterIdleBut("eval")
  /\ max_turns \in 1..MaxEvalTurns
  /\ eval_turns = 0 /\ consecutive_timeouts = 0 /\ is_submitted = FALSE
  /\ task_status = "" /\ evalPc = "idle" /\ outcomes = <<>>
  /\ submitted_answer = None /\ evaluated = <<>> /\ submissions = <<>>

EvalNext ==
  \/ RunTask
  \/ TurnCompleted
  \/ TurnTimedOut
  \/ TurnRaised

EvalSpec == EvalInit /\ [][EvalNext]_vars

\* --------------------------- the dbbench command and run_dbbench_tasks
\* EvalConfig.max_consecutive_errors, scaled down from 5
max_consecutive_errors == 2

\* TaskStatus: the value of each member
TaskStatus ==
  [ COMPLETED |-> "completed", AGENT_CONTEXT_LIMIT |-> "agent context limit",
    AGENT_VALIDATION_FAILED |-> "agent validation failed",
    AGENT_INVALID_ACTION |-> "agent invalid action",
    TASK_LIMIT_REACHED |-> "task limit reached", TASK_ERROR |-> "task error",
    UNKNOWN |-> "unknown" ]

\* DBBenchResult(is_correct=...), the other fields left out
DBBenchResult(correct) == [type |-> "DBBenchResult", is_correct |-> correct]

\* result=None of a TaskResult
NoResult == [type |-> "NoneType"]

\* TaskResult(index, status, history, result, error); status is the name
\* of the TaskStatus member, history is the list of messages
TaskResult(idx, member, messages, res, err) ==
  [index |-> idx, status |-> member, history |-> messages, result |-> res,
   error |-> err]

\* a history of n messages
HistoryOf(n) == [i \in 1..n |-> "m"]

\* the TaskResults run_dbbench_task may return for the task `idx`
TaskResults(idx) ==
  { TaskResult(idx, "COMPLETED", HistoryOf(2), DBBenchResult(TRUE), None),
    TaskResult(idx, "COMPLETED", HistoryOf(2), DBBenchResult(FALSE), None),
    TaskResult(idx, "TASK_LIMIT_REACHED", HistoryOf(3), DBBenchResult(FALSE), None),
    TaskResult(idx, "AGENT_CONTEXT_LIMIT", HistoryOf(1), DBBenchResult(TRUE), None),
    TaskResult(idx, "TASK_ERROR", HistoryOf(0), NoResult, "e") }

\* TaskResult.to_dict, then json.dumps and json.loads: the dict a line of
\* runs.jsonl holds (time left out)
to_dict(r) ==
  LET data == [index |-> r.index, status |-> TaskStatus[r.status],
               history |-> r.history]
      with_result == IF r.result # NoResult
                     THEN data @@ ("result" :> [is_correct |-> r.result.is_correct])
                     ELSE data
  IN IF r.error \notin {None, ""} THEN with_result @@ ("error" :> r.error) ELSE with_result

\* dict.get(key, default)
Get(d, key, default) == IF key \in DOMAIN d THEN d[key] ELSE default

\* EvalMetrics()
EvalMetrics ==
  [ total |-> 0, passed |-> 0, failed |-> 0, completed |-> 0,
    context_limit |-> 0, validation_failed |-> 0, invalid_action |-> 0,
    task_limit_reached |-> 0, task_error |-> 0, unknown |-> 0,
    history_lengths |-> <<>> ]

\* the counter of a status, by the order of the branches
StatusCounter(completed, context, validation, invalid, limit, error) ==
  IF completed THEN "completed"
  ELSE IF context THEN "context_limit"
  ELSE IF validation THEN "validation_failed"
  ELSE IF invalid THEN "invalid_action"
  ELSE IF limit THEN "task_limit_reached"
  ELSE IF error THEN "task_error"
  ELSE "unknown"

\* one more result counted: total, passed or failed, one status counter and
\* the history length
Counted(m, is_correct, counter, history_length) ==
  [m EXCEPT !.total = @ + 1,
            !.passed = IF is_correct THEN @ + 1 ELSE @,
            !.failed = IF is_correct THEN @ ELSE @ + 1,
            ![counter] = @ + 1,
            !.history_lengths = Append(@, history_length)]

\* an add_result that counts a result as failed only
add_result_NoPassed(m, r, is_correct) ==
  Counted(m, FALSE, "unknown", Len(r.history))

\* EvalMetrics.add_result(result, is_correct)
add_result(m, r, is_correct) ==
  Counted(m, is_correct,
          StatusCounter(r.status = "COMPLETED", r.status = "AGENT_CONTEXT_LIMIT",
                        r.status = "AGENT_VALIDATION_FAILED",
                        r.status = "AGENT_INVALID_ACTION",
                        r.status = "TASK_LIMIT_REACHED", r.status = "TASK_ERROR"),
          Len(r.history))

\* rebuild_metrics_from_runs: load_results, then the loop over the lines
RECURSIVE rebuild_metrics_from_runs(_)
rebuild_metrics_from_runs(lines) ==
  IF lines = <<>> THEN EvalMetrics
  ELSE LET r == lines[Len(lines)]
           result_data == Get(r, "result", << >>)
           status_str == Get(r, "status", "unknown")
       IN Counted(rebuild_metrics_from_runs(SubSeq(lines, 1, Len(lines) - 1)),
                  Get(result_data, "result", Get(result_data, "is_correct", FALSE)),
                  StatusCounter(status_str = "completed", status_str = "agent context limit",
                                status_str = "agent validation failed",
                                status_str = "agent invalid action",
                                status_str = "task limit reached",
                                status_str = "task error"),
                  Len(Get(r, "history", << >>)))

\* get_completed_indices
get_completed_indices(lines) == { lines[i].index : i \in DOMAIN lines }

\* a check that never sets the count back
check_consecutive_errors_NoReset(errors, r) ==
  IF r.status = "TASK_ERROR" THEN errors + 1 ELSE errors

\* check_consecutive_errors: the count after `result`; it raises when the
\* count has reached max_consecutive_errors
check_consecutive_errors(errors, r) ==
  IF r.status = "TASK_ERROR" THEN errors + 1 ELSE 0

\* the tasks of the data file, by index
Tasks == [i \in 1..MaxTasks |-> i]

RunFrame ==
  /\ EarlierFrame
  /\ UNCHANGED << dbVars, writeVars, editVars, factoryVars, processorVars,
                  evalVars, mysqlVars, signalVars, conversationVars,
                  parallel >>

\* the metrics of the command once run_dbbench_tasks has returned
\* `counted`: with --resume they are rebuilt from the file
AtReturn(resume, lines, counted) ==
  IF resume THEN rebuild_metrics_from_runs(lines) ELSE counted

\* the dbbench command up to the first task: a new run directory, or with
\* --resume the directory of the run before, the completed indices left out
Dbbench ==
  /\ runPc \in {"idle", "finished", "aborted", "killed"}
  /\ sessions < MaxSessions
  /\ sessions' = sessions + 1
  /\ resumed' = (sessions > 0)
  /\ run_tasks' = IF resumed'
                  THEN SelectSeq(Tasks, LAMBDA t : t \notin get_completed_indices(runs_jsonl))
                  ELSE Tasks
  /\ consecutive_errors' = 0
  /\ session_results' = <<>>
  /\ abort_message' = None
  /\ UNCHANGED runs_jsonl
  /\ IF run_tasks' = <<>>
     THEN /\ runPc' = "finished"
          /\ metrics' = AtReturn(resumed', runs_jsonl, EvalMetrics)
          /\ overall_json' = IF resumed' THEN << metrics' >> ELSE overall_json
     ELSE /\ runPc' = "running"
          /\ metrics' = EvalMetrics
          /\ UNCHANGED overall_json
  /\ RunFrame

\* a task returns its result: append_result, add_result, update_overall,
\* check_consecutive_errors; after the last one the function returns.  With
\* parallel > 1 the tasks complete in any order.
TaskReturns ==
  /\ runPc = "running"
  /\ \E i \in DOMAIN run_tasks : \E r \in TaskResults(run_tasks[i]) :
       /\ parallel > 1 \/ i = 1
       /\ run_tasks' = SubSeq(run_tasks, 1, i - 1)
                         \o SubSeq(run_tasks, i + 1, Len(run_tasks))
       /\ session_results' = Append(session_results, r)
       /\ runs_jsonl' = Append(runs_jsonl, to_dict(r))
       /\ consecutive_errors' = check_consecutive_errors(consecutive_errors, r)
       /\ LET counted == add_result(metrics, r,
                                    IF r.result.type = "DBBenchResult"
                                    THEN r.result.is_correct
                                    ELSE FALSE)
          IN IF r.status = "TASK_ERROR"
                  /\ consecutive_errors' >= max_consecutive_errors
             THEN /\ runPc' = "aborted"
                  /\ abort_message' = "consecutive task errors"
                  /\ metrics' = counted /\ overall_json' = << counted >>
             ELSE /\ abort_message' = None
                  /\ IF run_tasks' = <<>>
                     THEN /\ runPc' = "finished"
                          /\ metrics' = AtReturn(resumed, runs_jsonl', counted)
                          /\ overall_json' = << metrics' >>
                     ELSE /\ runPc' = "running"
                          /\ metrics' = counted /\ overall_json' = << counted >>
  /\ UNCHANGED << resumed, sessions >>
  /\ RunFrame

\* a task raises EvalAbortedError after three turn timeouts in a row
TaskAborts ==
  /\ runPc = "running"
  /\ runPc' = "aborted"
  /\ abort_message' = "3 consecutive turn timeouts"
  /\ UNCHANGED << runs_jsonl, overall_json, metrics, run_tasks,
                  consecutive_errors, resumed, sessions, session_results >>
  /\ RunFrame

\* the process is interrupted
Interrupted ==
  /\ runPc = "running"
  /\ runPc' = "killed"
  /\ UNCHANGED << runs_jsonl, overall_json, metrics, run_tasks,
                  consecutive_errors, resumed, sessions, session_results,
                  abort_message >>
  /\ RunFrame

RunInit ==
  /\ EarlierIdle
  /\ LaterIdleBut("run")
  /\ parallel \in 1..2
  /\ runs_jsonl = <<>> /\ overall_json = <<>> /\ metrics = EvalMetrics
  /\ run_tasks = <<>> /\ consecutive_errors = 0 /\ runPc = "idle"
  /\ resumed = FALSE /\ sessions = 0 /\ session_results = <<>>
  /\ abort_message = None

RunNext ==
  \/ Dbbench
  \/ TaskReturns
  \/ TaskAborts
  \/ Interrupted

RunSpec == RunInit /\ [][RunNext]_vars

\* ------------------------------- the MySQL container of the EvalRunner
\* uuid.uuid4().hex[:6]
Hexes == {"a1b2c3", "d4e5f6"}

\* the mutation tasks run_dbbench_tasks has started, by index
MysqlTasks == 1..MaxParallel

\* f"eval_{task.index}_{uuid.uuid4().hex[:6]}"
db_name(idx, hex) == "eval_" \o ToString(idx) \o "_" \o hex

MysqlFrame ==
  /\ EarlierFrame
  /\ UNCHANGED << dbVars, writeVars, editVars, factoryVars, processorVars,
                  evalVars, runVars, signalVars, conversationVars >>

\* _run_dbbench_task_mysql up to its first suspension: the database name,
\* then _ensure_mysql, which either makes the MySQLContainer, keeps it in
\* _mysql_container and awaits start(), or returns the one kept there
TaskNeedsMysql(t) ==
  /\ mysqlPc[t] = "idle"
  /\ \E hex \in Hexes :
       db_names' = [db_names EXCEPT ![t] = db_name(t, hex)]
  /\ IF _mysql_container = None
     THEN /\ _mysql_container' = "MySQLContainer"
          /\ container_state' = "starting"
          /\ starts' = starts + 1
          /\ mysqlPc' = [mysqlPc EXCEPT ![t] = "starting"]
          /\ UNCHANGED obtained
     ELSE /\ mysqlPc' = [mysqlPc EXCEPT ![t] = "has_mysql"]
          /\ obtained' = [obtained EXCEPT ![t] = container_state]
          /\ UNCHANGED << _mysql_container, container_state, starts >>
  /\ MysqlFrame

\* MySQLContainer.start returns: the container runs and answers queries
StartReturns(t) ==
  /\ mysqlPc[t] = "starting"
  /\ container_state' = "started"
  /\ mysqlPc' = [mysqlPc EXCEPT ![t] = "has_mysql"]
  /\ obtained' = [obtained EXCEPT ![t] = "started"]
  /\ UNCHANGED << _mysql_container, starts, db_names >>
  /\ MysqlFrame

\* MySQLContainer.start raises (docker run failed, or MySQL not ready in
\* time): the task ends with a task error, _mysql_container stays
StartRaises(t) ==
  /\ mysqlPc[t] = "starting"
  /\ container_state' = "failed"
  /\ mysqlPc' = [mysqlPc EXCEPT ![t] = "done"]
  /\ UNCHANGED << _mysql_container, starts, db_names, obtained >>
  /\ MysqlFrame

\* the rest of the task, with the container it was given
TaskEnds(t) ==
  /\ mysqlPc[t] = "has_mysql"
  /\ mysqlPc' = [mysqlPc EXCEPT ![t] = "done"]
  /\ UNCHANGED << _mysql_container, container_state, starts, db_names,
                  obtained >>
  /\ MysqlFrame

\* cleanup(), in the finally of run_dbbench_tasks
cleanup ==
  /\ \A t \in MysqlTasks : mysqlPc[t] = "done"
  /\ _mysql_container # None
  /\ _mysql_container' = None
  /\ container_state' = "removed"
  /\ UNCHANGED << starts, db_names, obtained, mysqlPc >>
  /\ MysqlFrame

MysqlInit ==
  /\ EarlierIdle
  /\ LaterIdleBut("mysql")
  /\ _mysql_container = None
  /\ container_state = "none"
  /\ starts = 0
  /\ mysqlPc = [t \in MysqlTasks |-> "idle"]
  /\ obtained = [t \in MysqlTasks |-> "none"]
  /\ db_names = [t \in MysqlTasks |-> ""]

MysqlNext ==
  \/ \E t \in MysqlTasks : TaskNeedsMysql(t)
  \/ \E t \in MysqlTasks : StartReturns(t)
  \/ \E t \in MysqlTasks : StartRaises(t)
  \/ \E t \in MysqlTasks : TaskEnds(t)
  \/ cleanup

MysqlSpec == MysqlInit /\ [][MysqlNext]_vars

\* ----------------------------------- the signal files (signals.py)
\* the session ids of the agents
SessionIds == {"s1", "s2"}

\* SignalManager._running_path
_running_path(session_id) == session_id \o ".running"

\* SignalManager._cancel_path
_cancel_path(session_id) == session_id \o ".cancel"

SignalFrame ==
  /\ EarlierFrame
  /\ UNCHANGED << dbVars, writeVars, editVars, factoryVars, processorVars,
                  evalVars, runVars, mysqlVars, conversationVars >>

\* register(info), by the agent's process
register(session_id) ==
  /\ agentPc[session_id] = "new"
  /\ signal_dir' = signal_dir \cup {_running_path(session_id)}
  /\ agentPc' = [agentPc EXCEPT ![session_id] = "registered"]
  /\ UNCHANGED << cancelPc, cancels >>
  /\ SignalFrame

\* deregister(session_id), by the agent's process: the unlink of the
\* .running file
DeregisterUnlinksRunning(session_id) ==
  /\ agentPc[session_id] = "registered"
  /\ signal_dir' = signal_dir \ {_running_path(session_id)}
  /\ agentPc' = [agentPc EXCEPT ![session_id] = "unlinking"]
  /\ UNCHANGED << cancelPc, cancels >>
  /\ SignalFrame

\* deregister(session_id): the unlink of the .cancel file, and the return
DeregisterUnlinksCancel(session_id) ==
  /\ agentPc[session_id] = "unlinking"
  /\ signal_dir' = signal_dir \ {_cancel_path(session_id)}
  /\ agentPc' = [agentPc EXCEPT ![session_id] = "deregistered"]
  /\ UNCHANGED << cancelPc, cancels >>
  /\ SignalFrame

\* cancel(session_id), by the kill command's process: the exists() of the
\* .running file; without it cancel returns False
CancelChecks(session_id) ==
  /\ cancelPc[session_id] = "idle"
  /\ cancels < MaxCancels
  /\ cancels' = cancels + 1
  /\ cancelPc' = [cancelPc EXCEPT ![session_id] =
                    IF _running_path(session_id) \in signal_dir
                    THEN "checked" ELSE "idle"]
  /\ UNCHANGED << signal_dir, agentPc >>
  /\ SignalFrame

\* cancel(session_id): the write of the .cancel file, and the return
CancelWrites(session_id) ==
  /\ cancelPc[session_id] = "checked"
  /\ signal_dir' = signal_dir \cup {_cancel_path(session_id)}
  /\ cancelPc' = [cancelPc EXCEPT ![session_id] = "idle"]
  /\ UNCHANGED << agentPc, cancels >>
  /\ SignalFrame

SignalInit ==
  /\ EarlierIdle
  /\ LaterIdleBut("signal")
  /\ signal_dir = {}
  /\ agentPc = [s \in SessionIds |-> "new"]
  /\ cancelPc = [s \in SessionIds |-> "idle"]
  /\ cancels = 0

SignalNext ==
  \/ \E s \in SessionIds : register(s)
  \/ \E s \in SessionIds : DeregisterUnlinksRunning(s)
  \/ \E s \in SessionIds : DeregisterUnlinksCancel(s)
  \/ \E s \in SessionIds : CancelChecks(s)
  \/ \E s \in SessionIds : CancelWrites(s)

SignalSpec == SignalInit /\ [][SignalNext]_vars

\* ------------------------------ the ConversationStore (conversations.py)
\* the ids _generate_id gives at the seconds 1, 2, ...: strftime of
\* "%Y-%m-%d_%H-%M-%S", in ascending order
ConversationIds ==
  << "2026-01-01_09-59-58", "2026-01-01_09-59-59", "2026-01-01_10-00-00",
     "2026-01-01_10-00-01", "2026-01-01_10-00-02", "2026-01-01_10-00-03" >>

\* ConversationStore._generate_id at the second `now`
_generate_id(now) == ConversationIds[now]

\* the place of an id in the lexicographic order of the ids
Rank(id) == CHOOSE n \in DOMAIN ConversationIds : ConversationIds[n] = id

\* list_conversations(limit): the files by st_mtime, newest first, the
\* first `limit` of them, the id read from each
RECURSIVE list_conversations(_, _)
list_conversations(dir, limit) ==
  IF dir = {} \/ limit = 0 THEN <<>>
  ELSE LET newest == CHOOSE f \in dir : \A g \in dir : g.st_mtime <= f.st_mtime
       IN << newest.id >> \o list_conversations(dir \ {newest}, limit - 1)

\* get_latest_id
get_latest_id(dir) ==
  LET conversations == list_conversations(dir, 1)
  IN IF conversations # <<>> THEN conversations[1] ELSE None

\* save(..., conversation_id): the file <conv_id>.json written at `now`
save(dir, conv_id, now) ==
  { f \in dir : f.id # conv_id } \cup { [id |-> conv_id, st_mtime |-> now] }

ConversationFrame ==
  /\ EarlierFrame
  /\ UNCHANGED << dbVars, writeVars, editVars, factoryVars, processorVars,
                  evalVars, runVars, mysqlVars, signalVars >>

\* a session without --resume ends: save under a new id
SaveNew ==
  /\ clock < MaxSaves
  /\ clock' = clock + 1
  /\ conversations_dir' = save(conversations_dir, _generate_id(clock'), clock')
  /\ UNCHANGED latest_id
  /\ ConversationFrame

\* a session with --resume <id> ends: save under the id it resumed
SaveResumed ==
  /\ clock < MaxSaves
  /\ \E f \in conversations_dir :
       /\ clock' = clock + 1
       /\ conversations_dir' = save(conversations_dir, f.id, clock')
  /\ UNCHANGED latest_id
  /\ ConversationFrame

\* --resume latest: get_latest_id
ResumeLatest ==
  /\ latest_id' = get_latest_id(conversations_dir)
  /\ UNCHANGED << conversations_dir, clock >>
  /\ ConversationFrame

ConversationInit ==
  /\ EarlierIdle
  /\ LaterIdleBut("conversation")
  /\ conversations_dir = {} /\ clock = 0 /\ latest_id = None

ConversationNext ==
  \/ SaveNew
  \/ SaveResumed
  \/ ResumeLatest

ConversationSpec == ConversationInit /\ [][ConversationNext]_vars

\* ------------------------------------------------------------ vocabulary
Terminal == {"turn_complete", "cancelled", "error"}

TurnEnded == pc = "returned"

LastEvent == events[Len(events)]

IsAssistant(m) == m.role = "assistant"

IsTool(m) == m.role = "tool"

Ids(msgs) == [i \in 1..Len(msgs) |-> msgs[i].tool_call_id]

CallIds(tcs) == [i \in 1..Len(tcs) |-> tcs[i].id]

\* index of the first assistant message after position i (Len + 1 if none)
NextAssistant(h, i) ==
  IF \E j \in (i+1)..Len(h) : IsAssistant(h[j])
  THEN CHOOSE j \in (i+1)..Len(h) :
         IsAssistant(h[j]) /\ \A k \in (i+1)..(j-1) : ~IsAssistant(h[k])
  ELSE Len(h) + 1

\* tool_call_ids of the tool messages between assistant message i and the next
ToolIdsAfter(h, i) == Ids(SelectSeq(SubSeq(h, i + 1, NextAssistant(h, i) - 1), IsTool))

Paired(h) ==
  /\ \A i \in 1..Len(h) :
       IsAssistant(h[i]) => ToolIdsAfter(h, i) = CallIds(h[i].tool_calls)
  /\ \A j \in 1..Len(h) :
       IsTool(h[j]) => \E i \in 1..(j-1) : IsAssistant(h[i])

SameCall(e, f) == e.round = f.round /\ e.idx = f.idx

\* the name has no handler, or its handler asks for approval
NeedsApproval(name) == name \notin DOMAIN Handlers \/ Handlers[name]

\* ---------------------------------------------------------------- claims

\* C1: after every run_turn that ended with turn_complete, cancelled or error,
\* each assistant message with tool_calls c1..cn is followed, before the next
\* assistant message, by exactly the tool messages with ids c1.id..cn.id, and
\* every tool message has such an assistant message before it.
C1_HistoryPaired == TurnEnded => Paired(history)

\* C2: a run_turn event stream that is over ends with exactly one terminal
\* event, and that event is the last one.
C2_OneTerminalEvent ==
  pc \in {"returned", "raised"} =>
    /\ Len(events) > 0
    /\ LastEvent.type \in Terminal
    /\ \A i \in 1..(Len(events) - 1) : events[i].type \notin Terminal

\* C3: run_turn never raises across its event-stream boundary.
C3_NeverRaises == pc # "raised"

\* C4: once cancellation has been requested in a turn, no model call is
\* started and no tool is dispatched in that turn.
C4_NoWorkAfterCancel ==
  /\ ~lateModelCall
  /\ \A i \in 1..Len(dispatchLog) : ~dispatchLog[i].cancelled

\* C5: once is_cancelled() has returned true, every later call returns true
\* and the flag stays set until the reset at the start of the next run_turn.
C5_Latching == cancelSeen => (lastRet /\ cancel_requested)

\* after is_cancelled() had returned true, a later call was made while the
\* external predicate answered false, and it returned true
C5_Witness == cancelSeen /\ held /\ lastRet

\* C6: when the callback rejects call k of n, the Session receives exactly n
\* tool messages for the round, in call order: the real results of 1..k-1,
\* the rejection text for k and the skip text for k+1..n; then turn_complete,
\* with no further model round.
RealResult(i) ==
  events[CHOOSE j \in 1..Len(events) :
           events[j].type = "tool_end" /\ events[j].round = round
             /\ events[j].idx = i].tool_result

ExpectedAfterRejection ==
  [i \in 1..Len(pending) |->
     ToolMsg(ToolResult(pending[i].id,
                        IF i < rejectedAt THEN RealResult(i)
                        ELSE IF i = rejectedAt THEN REJECTED ELSE SKIPPED))]

\* index of the last assistant message of the history
LastAssistant(h) ==
  CHOOSE i \in 1..Len(h) : IsAssistant(h[i]) /\ \A j \in (i+1)..Len(h) : ~IsAssistant(h[j])

C6_RejectionResults ==
  (TurnEnded /\ rejectedAt > 0) =>
    /\ LastEvent.type = "turn_complete"
    /\ history[LastAssistant(history)].tool_calls = pending
    /\ SubSeq(history, LastAssistant(history) + 1, Len(history)) = ExpectedAfterRejection

\* C7: when the callback rejects call A and call B follows it in the round,
\* the events include tool_blocked for A and no tool_start for B.
C7_NoStartAfterReject ==
  (TurnEnded /\ rejectedAt > 0) =>
    /\ \E i \in 1..Len(events) :
         events[i].type = "tool_blocked" /\ events[i].round = round
           /\ events[i].idx = rejectedAt
    /\ \A i \in 1..Len(events) :
         ~(events[i].type = "tool_start" /\ events[i].round = round
             /\ events[i].idx > rejectedAt)

\* C8: between the tool_start of a call and its tool_end or tool_blocked, no
\* tool_start or tool_end of another call is emitted.
C8_NoInterleaving ==
  \A i, j, k \in 1..Len(events) :
    ( /\ i < j /\ j < k
      /\ events[i].type = "tool_start"
      /\ events[k].type \in {"tool_end", "tool_blocked"}
      /\ SameCall(events[i], events[k])
      /\ events[j].type \in {"tool_start", "tool_end"} )
    => SameCall(events[i], events[j])

\* C9: in a turn that is neither rejected nor cancelled, every tool_start is
\* followed by exactly one tool_end of that call, with the same tool_name.
C9_StartHasEnd ==
  (TurnEnded /\ rejectedAt = 0 /\ LastEvent.type # "cancelled") =>
    \A i \in 1..Len(events) :
      events[i].type = "tool_start" =>
        Cardinality({ j \in (i+1)..Len(events) :
                        /\ events[j].type = "tool_end"
                        /\ SameCall(events[i], events[j])
                        /\ events[j].tool_name = events[i].tool_name }) = 1

\* C10: with an approval callback configured, a call whose name requires
\* approval (an unregistered name always does) is dispatched only after the
\* callback returned true for that call.
C10_ApprovalGate ==
  hasCallback =>
    \A i \in 1..Len(dispatchLog) :
      NeedsApproval(dispatchLog[i].name) => dispatchLog[i].approved

\* an unregistered tool was dispatched after approval, following a call that
\* needed none
C10_Witness ==
  /\ hasCallback
  /\ \E i, j \in 1..Len(dispatchLog) :
       /\ i < j
       /\ dispatchLog[i].name = "read" /\ ~dispatchLog[i].approved
       /\ dispatchLog[j].name = "nope" /\ dispatchLog[j].approved

\* C11: with an approval callback configured, a call whose argument values
\* contain one of the profile's dangerous patterns is dispatched only after
\* the callback approved that call, whatever the tool's own approval flag.
C11_DangerousNeedsApproval ==
  hasCallback =>
    \A i \in 1..Len(dispatchLog) :
      check_dangerous_patterns(dispatchLog[i].arguments) => dispatchLog[i].approved

\* C12: truncate_output(truncate_output(s, N), N) = truncate_output(s, N) for
\* every string s and limit N, and truncate_output(s, N) = s when len(s) <= N.
C12_TruncateIdempotent ==
  /\ (Len(truncated) >= 1 /\ Len(tr_content) <= tr_max_chars) => truncated[1] = tr_content
  /\ Len(truncated) = 2 => truncated[2] = truncated[1]

\* the half of C12 that speaks of strings within the limit
C12_ShortUnchanged ==
  (Len(truncated) >= 1 /\ Len(tr_content) <= tr_max_chars) => truncated[1] = tr_content

\* C13: every tool message run_turn has appended to the Session history has a
\* content of at most MAX_TOOL_OUTPUT_CHARS characters.
C13_ToolMessagesBounded ==
  \A i \in 1..Len(history) :
    IsTool(history[i]) => Len(history[i].content) <= MAX_TOOL_OUTPUT_CHARS

\* auto-compact is enabled and the estimate at the start of the turn exceeds
\* 0.8 x context_limit
AutoCompactDue == auto_compact /\ tokensAtStart * 10 > context_limit * 8

IsCompactEvent(e) == e.type \in {"compact_start", "compact_end"}

\* the first model call of the turn is being made
FirstModelCall == pc = "await_stream" /\ round = 1

IsSummaryMessage(m) ==
  \E summary \in Summaries : m = UserMessage(SUMMARY_PREFIX \o summary)

\* C14: when auto-compact is enabled and estimate_tokens() exceeds
\* 0.8 x context_limit at the start of run_turn, the turn's events begin with
\* compact_start("auto") and compact_end and hold no other compact event, and
\* at the first model call the history ends with the summary followed by the
\* new user message; otherwise the turn emits no compact event.
C14_AutoCompact ==
  IF AutoCompactDue
  THEN /\ Len(events) >= 1
       /\ events[1].type = "compact_start" /\ events[1].content = "auto"
       /\ pc = "await_compact" => Len(events) = 1
       /\ pc # "await_compact" => (Len(events) >= 2 /\ events[2].type = "compact_end")
       /\ \A i \in 3..Len(events) : ~IsCompactEvent(events[i])
       /\ FirstModelCall =>
            /\ Len(history) >= 2
            /\ history[Len(history)] = UserMsg
            /\ IsSummaryMessage(history[Len(history) - 1])
  ELSE /\ \A i \in 1..Len(events) : ~IsCompactEvent(events[i])
       /\ FirstModelCall => (Len(history) >= 1 /\ history[Len(history)] = UserMsg)

\* the first model call of a turn that began with an auto-compaction
C14_Witness ==
  /\ AutoCompactDue /\ FirstModelCall
  /\ Len(events) = 2 /\ events[2].type = "compact_end"
  /\ Len(history) = 2

\* the user messages of a history, by role
UserMessagesOf(h) == SelectSeq(h, LAMBDA m : m.role = "user")

\* the last min(3, n) of n elements
LastThree(seq) == SubSeq(seq, Len(seq) - (IF Len(seq) < 3 THEN Len(seq) ELSE 3) + 1, Len(seq))

\* C15: after compact() the history is exactly the last min(3, n) user
\* messages of the history before it, in their order, followed by one user
\* message with content SUMMARY_PREFIX + summary.
C15_CompactKeepsLastThree ==
  \A i \in 1..Len(compactLog) :
    compactLog[i].after =
      LastThree(UserMessagesOf(compactLog[i].before))
        \o << UserMessage(SUMMARY_PREFIX \o compactLog[i].summary) >>

\* C16: when compact() runs twice in succession and the summarizer returns
\* the same summary both times, the history after the second run equals the
\* history after the first.
C16_CompactIdempotent ==
  \A i \in 1..(Len(compactLog) - 1) :
    compactLog[i + 1].summary = compactLog[i].summary
      => compactLog[i + 1].after = compactLog[i].after

\* C17: Session.total_input_tokens and Session.total_output_tokens never
\* decrease, whatever run_turn and compact calls are made and whatever
\* non-negative usage the provider reports.
C17_TokensMonotone ==
  [][ /\ total_input_tokens' >= total_input_tokens
      /\ total_output_tokens' >= total_output_tokens ]_vars

\* usage has been counted, and a compact() and a second turn came after it
C17_Witness ==
  /\ total_input_tokens > 0 /\ total_output_tokens > 0
  /\ compacts > 0 /\ turns = 2 /\ pc = "returned"

\* C18: dispatch returns the failed ToolOutput "Unknown tool: <name>" for an
\* unregistered name without invoking a handler, turns every exception other
\* than a cancellation that the handler raises into a failed ToolOutput, and
\* re-raises a cancellation.
C18_Dispatch ==
  \A i \in 1..Len(dispatched) :
    LET d == dispatched[i] IN
    /\ d.invocation.tool_name \notin {"read", "bash"} =>
         /\ ~d.invoked
         /\ d.outcome = Returned("Unknown tool: " \o d.invocation.tool_name, FALSE)
    /\ d.handlerRaised \notin {None, "CancelledError"} =>
         (d.outcome.raised = None /\ ~d.outcome.success)
    /\ d.handlerRaised = "CancelledError" => d.outcome = Raised("CancelledError")

\* a handler's ValueError was turned into a failed output, and a handler's
\* cancellation was re-raised
C18_Witness ==
  \E i, j \in 1..Len(dispatched) :
    /\ dispatched[i].handlerRaised = "ValueError"
    /\ dispatched[i].outcome.raised = None /\ ~dispatched[i].outcome.success
    /\ dispatched[j].handlerRaised = "CancelledError"
    /\ dispatched[j].outcome.raised = "CancelledError"

\* C19: when ModelClient.stream has ended, the sequence of events it yielded
\* ends with done or error (also when the provider signalled finish_reason
\* and sent no usage chunk).
C19_StreamEndsWithDoneOrError ==
  streamPc = "ended" =>
    /\ Len(streamEvents) > 0
    /\ streamEvents[Len(streamEvents)].type \in {"done", "error"}

\* ---------------------------------------------------------------- C20
HasDangerousPattern(c) ==
  \E i \in 1..Len(DANGEROUS_PATTERNS) : Contains(c, DANGEROUS_PATTERNS[i])

Refusable(c) ==
  HasDangerousPattern(c) \/ extract_base_command(c) \notin ALLOWED_COMMANDS

\* C20: in restricted mode is_command_allowed refuses every command that
\* contains one of DANGEROUS_PATTERNS, whatever its base command, and every
\* command whose base command is not in the allowlist; the handler then never
\* starts a subprocess and what it returns is a failed ToolOutput.
C20_RestrictedRefuses ==
  (restricted /\ bashPc # "idle" /\ Refusable(bash_command)) =>
    /\ is_command_allowed(bash_command)[1] = FALSE
    /\ ~subprocess_started
    /\ bashPc \in {"called", "returned"}
    /\ bashPc = "returned" =>
         /\ bashOutput[1].raised = None
         /\ bashOutput[1].success = FALSE

\* a command with an allowlisted base command and a dangerous pattern has
\* been refused, and so has one without a pattern whose base command is not
\* allowlisted
C20_Witness ==
  /\ restricted
  /\ bashPc = "returned"
  /\ HasDangerousPattern(bash_command)
  /\ extract_base_command(bash_command) \in ALLOWED_COMMANDS
  /\ bashOutput[1].success = FALSE

\* ---------------------------------------------------------------- C21
\* the segments of a pipeline or chain: command split on |, &&, ; and ||
RECURSIVE Segments(_)
Segments(c) ==
  LET Sep(i) == IF i < Len(c) /\ SubSeq(c, i, i + 1) \in {"&&", "||"} THEN 2
                ELSE IF SubSeq(c, i, i) \in {"|", ";"} THEN 1
                ELSE 0
  IN IF \E i \in 1..Len(c) : Sep(i) > 0
     THEN LET at == CHOOSE i \in 1..Len(c) :
                      Sep(i) > 0 /\ \A j \in 1..(i - 1) : Sep(j) = 0
          IN << SubSeq(c, 1, at - 1) >>
               \o Segments(SubSeq(c, at + Sep(at), Len(c)))
     ELSE << c >>

\* C21: in restricted mode, a command for which the handler starts a
\* subprocess has an allowlisted base command in every segment of its
\* pipeline or chain.
C21_EverySegmentAllowed ==
  (restricted /\ subprocess_started) =>
    \A k \in 1..Len(Segments(bash_command)) :
      LET segment == Segments(bash_command)[k] IN
      split(segment) # <<>> => extract_base_command(segment) \in ALLOWED_COMMANDS

\* ---------------------------------------------------------------- C22
\* the statement as a SQL lexer leaves it: a -- comment runs to the end of
\* its line, a /* comment through the next */ (to the end if there is none)
RECURSIVE WithoutComments(_, _)
WithoutComments(str, mode) ==
  IF str = "" THEN ""
  ELSE LET rest(n) == SubSeq(str, n + 1, Len(str)) IN
       IF mode = "line"
       THEN IF SubSeq(str, 1, 1) = "\n" THEN "\n" \o WithoutComments(rest(1), "code")
            ELSE WithoutComments(rest(1), "line")
       ELSE IF mode = "block"
       THEN IF Len(str) >= 2 /\ SubSeq(str, 1, 2) = "*/"
            THEN " " \o WithoutComments(rest(2), "code")
            ELSE WithoutComments(rest(1), "block")
       ELSE IF Len(str) >= 2 /\ SubSeq(str, 1, 2) = "--"
       THEN WithoutComments(rest(2), "line")
       ELSE IF Len(str) >= 2 /\ SubSeq(str, 1, 2) = "/*"
       THEN WithoutComments(rest(2), "block")
       ELSE SubSeq(str, 1, 1) \o WithoutComments(rest(1), "code")

HasMutationKeyword(statement) ==
  MatchPositions(WithoutComments(statement, "code")) # {}

\* C22: a statement that, its comments removed, contains a mutation keyword
\* as a whole word in any letter case is refused by is_read_only_sql, and
\* the query operation answers "Query blocked: ..." without handing the
\* statement to the database.
C22_MutationBlocked ==
  (dbPc # "idle" /\ HasMutationKeyword(sql)) =>
    /\ is_read_only_sql(sql)[1] = FALSE
    /\ executed = <<>>
    /\ (dbPc = "returned" /\ ~fromFactory) =>
         /\ dbOutput[1].success = FALSE
         /\ SubSeq(dbOutput[1].content, 1, 14) = "Query blocked:"

\* ---------------------------------------------------------------- C23
\* C23: the scan for mutation keywords is applied only in read-only mode: a
\* handler the factory built for database = mutations hands a statement with
\* a mutation keyword to the database, one built for database = readonly
\* answers "Query blocked: ...".
C23_ScanOnlyWhenReadonly ==
  (fromFactory /\ dbPc = "returned" /\ ~is_read_only_sql(sql)[1]) =>
    IF database = "mutations"
    THEN executed = << sql >>
    ELSE /\ executed = <<>>
         /\ dbOutput[1].raised = None
         /\ SubSeq(dbOutput[1].content, 1, 14) = "Query blocked:"

\* ---------------------------------------------------------------- C24
\* C24: in create_only mode a write to a path that exists returns a failed
\* ToolOutput and leaves every file and directory as it was.
C24_CreateOnlyKeepsExisting ==
  [][ ( /\ writePc = "called" /\ writePc' = "returned"
        /\ create_only
        /\ write_args.path # ""
        /\ Exists(files, dirs, Resolve(write_args.path)) )
      => /\ files' = files
         /\ dirs' = dirs
         /\ writeOutput'[1].success = FALSE ]_vars

\* a create_only write with a path and content has been answered while the
\* path, outside the sensitive locations, holds a file
C24_Witness ==
  /\ writePc = "returned"
  /\ create_only
  /\ write_args.content # ""
  /\ write_args.path \in {"/w/a", "/w/link"}
  /\ files["/w/a"] = "old"
  /\ writeOutput[1].success = FALSE
  /\ SubSeq(writeOutput[1].content, 1, 19) = "File already exists"

\* ---------------------------------------------------------------- C25
\* the places of the file at which old_string is found
Occurrences(content, old_string) ==
  { i \in 1..(Len(content) - Len(old_string) + 1) :
      SubSeq(content, i, i + Len(old_string) - 1) = old_string }

\* how many matches old_string has: its occurrences, or without any, the
\* windows that match it under the first normalisation that has a match
MatchCount(content, old_string) ==
  IF Occurrences(content, old_string) # {}
  THEN Cardinality(Occurrences(content, old_string))
  ELSE IF Matches(content, old_string, _normalize_whitespace) # {}
  THEN Cardinality(Matches(content, old_string, _normalize_whitespace))
  ELSE Cardinality(Matches(content, old_string, _normalize_indentation))

\* C25: the edit tool changes the file only when old_string has exactly one
\* match; when it has none or more than one, the content stays as it was
\* and the ToolOutput is a failed one.
C25_EditOnlyOnUniqueMatch ==
  [][ (Editable /\ editPc' = "returned") =>
        \/ MatchCount(file_content, edit_args.old_string) = 1
        \/ /\ file_content' = file_content
           /\ editOutput'[1].success = FALSE ]_vars

\* ---------------------------------------------------------------- C26
\* C26: in a registry built from a profile with file_write = full, the write
\* tool is registered with create_only = false and requires no approval,
\* whatever the approval mode of the profile.
C26_FullWriteNeedsNoApproval ==
  (registered # <<>> /\ profile.file_write = "full") =>
    /\ "write" \in DOMAIN registered[1]
    /\ ~registered[1]["write"].limited
    /\ ~registered[1]["write"].requires_approval

\* the terminal events of a turn
IsTerminalEvent(e) ==
  e.type = "turn_complete" \/ e.type = "cancelled" \/ e.type = "error"

\* the events of `stream` up to and including its first terminal event
UpToFirstTerminal(stream) ==
  LET ends == { i \in DOMAIN stream : IsTerminalEvent(stream[i]) }
  IN IF ends = {} THEN stream
     ELSE SubSeq(stream, 1, CHOOSE i \in ends : \A j \in ends : i <= j)

StartCalls == SelectSeq(exporter_turns, LAMBDA c : c.method = "start_turn")

EndCalls == SelectSeq(exporter_turns, LAMBDA c : c.method = "end_turn")

\* C28: the exporter has received one start_turn per wrap_turn invocation,
\* one end_turn per invocation that is over and none for the one under way,
\* each end_turn after its start_turn and with the same turn; and the turn
\* index of each start_turn is one more than that of the start_turn before.
C28_OneStartOneEndPerTurn ==
  /\ Len(StartCalls) = total_turns
  /\ Len(EndCalls) = IF wrapPc \in {"idle", "finished"} THEN total_turns
                     ELSE total_turns - 1
  /\ \A k \in DOMAIN exporter_turns :
       exporter_turns[k].method = IF k % 2 = 1 THEN "start_turn" ELSE "end_turn"
  /\ \A k \in DOMAIN EndCalls : EndCalls[k].ctx = StartCalls[k].ctx
  /\ \A k \in DOMAIN StartCalls :
       k > 1 => StartCalls[k].ctx.turn_index = StartCalls[k - 1].ctx.turn_index + 1

\* two wrap_turn invocations are over, the second ended by an error event
C28_Witness ==
  /\ total_turns = 2
  /\ wrapPc = "finished"
  /\ passed # <<>> /\ passed[Len(passed)].type = "error"
  /\ Len(exporter_turns) = 4

\* the record_tool_execution calls made while the event at position i of
\* the wrapped iterator was processed
RecordsAt(i) ==
  { k \in DOMAIN exporter_tools :
      exporter_tools[k].method = "record_tool_execution" /\ exporter_tools[k].at = i }

\* C29: for every tool_end event that has passed through wrap_turn there is
\* exactly one record_tool_execution call, with that event's tool_name and
\* success = true; for every tool_blocked event exactly one, with
\* success = false and error "Blocked by user".
C29_EveryToolEventRecorded ==
  \A i \in DOMAIN passed :
    /\ passed[i].type = "tool_end" =>
         /\ Cardinality(RecordsAt(i)) = 1
         /\ \A k \in RecordsAt(i) :
              /\ exporter_tools[k].ctx.tool_name = passed[i].tool_name
              /\ exporter_tools[k].ctx.success = TRUE
    /\ passed[i].type = "tool_blocked" =>
         /\ Cardinality(RecordsAt(i)) = 1
         /\ \A k \in RecordsAt(i) :
              /\ exporter_tools[k].ctx.success = FALSE
              /\ exporter_tools[k].ctx.error = "Blocked by user"

\* the turns i, i+1, i+2 of the task all ran into the timeout
ThreeTimeoutsFrom(i) ==
  \A j \in i..(i + 2) : j \in DOMAIN outcomes /\ outcomes[j] = "timeout"

\* the number of turns at the end of `seq` that ran into the timeout
RECURSIVE TrailingTimeouts(_)
TrailingTimeouts(seq) ==
  IF seq = <<>> \/ seq[Len(seq)] # "timeout" THEN 0
  ELSE 1 + TrailingTimeouts(SubSeq(seq, 1, Len(seq) - 1))

\* C30: the task has raised EvalAbortedError exactly if its last three
\* turns ran into the turn timeout, and no turn is run after three such
\* turns in a row; the count is the number of turns that timed out since
\* the last turn that ended within the timeout (zero right after one).
C30_AbortsOnThreeTimeoutsInARow ==
  /\ evalPc = "EvalAbortedError" <=> ThreeTimeoutsFrom(Len(outcomes) - 2)
  /\ \A i \in DOMAIN outcomes : ThreeTimeoutsFrom(i) => i + 2 = Len(outcomes)
  /\ evalPc \in {"in_turn", "EvalAbortedError"} =>
       consecutive_timeouts = TrailingTimeouts(outcomes)

\* the run was aborted after a timeout, a turn within the timeout and three
\* more timeouts
C30_Witness ==
  /\ evalPc = "EvalAbortedError"
  /\ outcomes = << "timeout", "completed", "timeout", "timeout", "timeout" >>

\* C37: after every turn that ended with turn_complete and without a
\* rejection, the last entry of the history is an assistant text message.
C37_TurnEndsWithAssistantText ==
  TurnEnded /\ LastEvent.type = "turn_complete" /\ rejectedAt = 0 =>
    /\ history # <<>>
    /\ IsAssistant(history[Len(history)])
    /\ history[Len(history)].tool_calls = <<>>

\* C39: a compact() call whose summarization request failed, so that
\* client.complete returned the text of the error and not a summary the
\* model produced, left the history as it was before the call.
C39_FailedCompactKeepsHistory ==
  \A i \in DOMAIN compactLog :
    compactLog[i].summary \notin ModelSummaries =>
      compactLog[i].after = compactLog[i].before

\* ---------------------------------------------------------------- C38
\* the content with the window of old_string's length at line i replaced by
\* `replacement`, every other line as it was
WindowReplaced(content, old_string, i, replacement) ==
  LET lines == SplitLines(content)
      k == Len(SplitLines(old_string))
  IN JoinLines(SubSeq(lines, 1, i - 1) \o << replacement >>
                 \o SubSeq(lines, i + k, Len(lines)))

\* what the edit leaves when old_string does not occur and one window
\* matches it under the first normalisation that has a match
FuzzyEdit(content, old_string, new_string) ==
  LET ws == Matches(content, old_string, _normalize_whitespace)
      ind == Matches(content, old_string, _normalize_indentation)
      i == CHOOSE i \in (IF ws # {} THEN ws ELSE ind) : TRUE
  IN WindowReplaced(content, old_string, i,
       IF ws # {} THEN new_string
       ELSE _reindent(new_string, JoinLines(Window(content, old_string, i))))

\* C38: an edit made by the whitespace-normalized or the indentation-flexible
\* strategy replaces the lines of its single matching window with the
\* (re-indented) new_string and leaves everything outside the window as it
\* was.
C38_FuzzyEditTouchesOnlyWindow ==
  [][ ( /\ Editable
        /\ editPc' = "returned"
        /\ editOutput'[1].success
        /\ count(file_content, edit_args.old_string) = 0 ) =>
      file_content' = FuzzyEdit(file_content, edit_args.old_string,
                                edit_args.new_string) ]_vars

\* C33: no turn is under way once the submit tool has accepted an answer in
\* an earlier turn, and when the task returns with an answer accepted, the
\* evaluator was handed one answer, the one accepted last.
C33_SubmissionEndsLoop ==
  /\ is_submitted => evalPc # "in_turn"
  /\ evalPc = "returned" /\ submissions # <<>> =>
       evaluated = << submissions[Len(submissions)] >>

\* the answer was submitted during a turn that ran into the timeout, after
\* a turn without one, and the task returned with turns left
C33_Witness ==
  /\ evalPc = "returned"
  /\ outcomes = << "completed", "timeout" >>
  /\ submissions = << "A" >>
  /\ eval_turns < max_turns


\* the last max_consecutive_errors results of this invocation are task errors
LastResultsAreErrors ==
  /\ Len(session_results) >= max_consecutive_errors
  /\ \A i \in 1..max_consecutive_errors :
       session_results[Len(session_results) + 1 - i].status = "TASK_ERROR"

\* the results of this invocation are the last lines of runs.jsonl
SessionResultsOnDisk ==
  /\ Len(runs_jsonl) >= Len(session_results)
  /\ \A i \in DOMAIN session_results :
       runs_jsonl[Len(runs_jsonl) - Len(session_results) + i]
         = to_dict(session_results[i])

\* C31: run_dbbench_tasks raises the EvalAbortedError of the abort policy as
\* soon as the last max_consecutive_errors results are task errors and not
\* before, and every result obtained, the last one included, is a line of
\* runs.jsonl by then.
C31_AbortsOnConsecutiveErrors ==
  /\ LastResultsAreErrors <=>
       (runPc = "aborted" /\ abort_message = "consecutive task errors")
  /\ SessionResultsOnDisk

C31_Witness ==
  /\ runPc = "aborted" /\ abort_message = "consecutive task errors"
  /\ Len(session_results) = 3
  /\ session_results[1].status = "COMPLETED"
  /\ Len(runs_jsonl) = 3

\* C32: no index is twice in runs.jsonl, and once a resumed run has ended
\* overall.json holds the metrics of all the lines of runs.jsonl.
C32_ResumedMetricsCountWholeFile ==
  /\ \A i, j \in DOMAIN runs_jsonl :
       i # j => runs_jsonl[i].index # runs_jsonl[j].index
  /\ resumed /\ runPc \in {"finished", "aborted"} =>
       overall_json = << rebuild_metrics_from_runs(runs_jsonl) >>

\* C40: in a run that started with an empty runs.jsonl, the metrics rebuilt
\* from the lines append_result wrote are the metrics add_result has
\* accumulated over the results.
C40_RebuildEqualsAccumulated ==
  ~resumed /\ runPc # "idle" =>
    /\ Len(runs_jsonl) = Len(session_results)
    /\ rebuild_metrics_from_runs(runs_jsonl) = metrics

C40_Witness ==
  /\ ~resumed /\ runPc = "finished"
  /\ metrics.total = 3 /\ metrics.passed = 2 /\ metrics.task_error = 1
  /\ metrics.context_limit = 1
  /\ metrics.history_lengths = << 1, 0, 2 >>

\* C34: at most one MySQL container is started, every task that got the
\* container from _ensure_mysql got it started, and no two tasks have the
\* same database name.
C34_OneStartedContainerForAll ==
  /\ starts <= 1
  /\ \A t \in DOMAIN obtained : obtained[t] \in {"none", "started"}
  /\ \A t, u \in DOMAIN db_names :
       t # u /\ db_names[t] # "" => db_names[t] # db_names[u]

\* C35: once deregister(session_id) has returned, the signal directory
\* holds neither the .running nor the .cancel file of the session.
C35_DeregisterLeavesNoFile ==
  \A s \in DOMAIN agentPc :
    agentPc[s] = "deregistered" =>
      /\ _running_path(s) \notin signal_dir
      /\ _cancel_path(s) \notin signal_dir

\* C36: whenever conversations are saved, get_latest_id gives the greatest
\* of their ids.
C36_LatestIsGreatestId ==
  conversations_dir # {} =>
    \A f \in conversations_dir :
      Rank(f.id) <= Rank(get_latest_id(conversations_dir))
====
